---- MODULE Spec2Model ----
(***************************************************************************)
(* Incremental candle synchronizer of crypto-trading-assistant:            *)
(* core/candles/sync.py over core/candles/repository.py (the store) and    *)
(* core/exchanges/binance.py (the feed).  Time is counted in minutes.      *)
(***************************************************************************)
EXTENDS Integers, Sequences, FiniteSets, TLC

(***************************************************************************)
(* Bounds of the model.                                                    *)
(***************************************************************************)
\* the minute at which the run starts; the feed has bars since minute 0
InitNow == 9
\* bar openings the clock passes during the run
MaxTicks == 1
\* bars before the requested start a feed page may carry
MaxOverlap == 1
\* bars per feed page; stands for limit=1000 (sync.py:82, binance.py:51)
PageLimit == 2
\* top-level invocations (sync_symbols jobs, direct sync calls) per run
MaxJobs == 2
\* feed calls that may fail with a network/HTTP error per run
MaxFailures == 1

\* Python's None for Optional[datetime]; datetimes are minutes >= 0
None == 0 - 1

Max2(a, b) == IF a >= b THEN a ELSE b
Min2(a, b) == IF a <= b THEN a ELSE b
MaxOf(S) == CHOOSE x \in S : \A y \in S : y <= x

(***************************************************************************)
(* core/utils.py: timeframe metadata.                                      *)
(***************************************************************************)
ExchangeTimeframe(n, i, l, r) ==
    [name |-> n, interval |-> i, lookback |-> l, refresh_minutes |-> r]

DEFAULT_TIMEFRAMES ==
    [k \in {"5m", "15m", "30m", "1h", "4h", "1d"} |->
        CASE k = "5m"  -> ExchangeTimeframe("5m", "5m", 100, 5)
          [] k = "15m" -> ExchangeTimeframe("15m", "15m", 100, 15)
          [] k = "30m" -> ExchangeTimeframe("30m", "30m", 100, 30)
          [] k = "1h"  -> ExchangeTimeframe("1h", "1h", 100, 60)
          [] k = "4h"  -> ExchangeTimeframe("4h", "4h", 60, 4 * 60)
          [] k = "1d"  -> ExchangeTimeframe("1d", "1d", 50, 24 * 60)]

\* str.lower() on the names the model uses
Lower(s) ==
    CASE s = "5M" -> "5m"
      [] s = "3M" -> "3m"
      [] s = "1H" -> "1h"
      [] s = "BTCUSDT" -> "btcusdt"
      [] s = "ETHUSDT" -> "ethusdt"
      [] OTHER -> s

\* str.upper() on the names the model uses
Upper(s) ==
    CASE s = "btcusdt" -> "BTCUSDT"
      [] s = "ethusdt" -> "ETHUSDT"
      [] s = "5m" -> "5M"
      [] s = "3m" -> "3M"
      [] s = "1h" -> "1H"
      [] OTHER -> s

\* a resolution that knows no defaults
MetadataForSynthesized(tf_lower) ==
    ExchangeTimeframe(tf_lower, tf_lower, 200, 60)

\* one entry of timeframe_metadata: the default, or synthesized metadata
MetadataFor(tf_lower) ==
    IF tf_lower \in DOMAIN DEFAULT_TIMEFRAMES
    THEN DEFAULT_TIMEFRAMES[tf_lower]
    ELSE ExchangeTimeframe(tf_lower, tf_lower, 200, 60)

timeframe_metadata(timeframes) ==
    [k \in {Lower(timeframes[n]) : n \in DOMAIN timeframes} |-> MetadataFor(k)]

\* dict key order of timeframe_metadata(timeframes): first insertion
RECURSIVE KeyOrder(_)
KeyOrder(timeframes) ==
    IF timeframes = << >> THEN << >>
    ELSE LET n == Len(timeframes)
             init == KeyOrder(SubSeq(timeframes, 1, n - 1))
             k == Lower(timeframes[n])
         IN IF \E m \in DOMAIN init : init[m] = k THEN init ELSE Append(init, k)

(***************************************************************************)
(* The configuration of the run: Settings.timeframes and the symbols.      *)
(***************************************************************************)
SettingsTimeframes == <<"5m", "3M">>
timeframe_map == timeframe_metadata(SettingsTimeframes)
timeframe_keys == KeyOrder(SettingsTimeframes)

(***************************************************************************)
(* The feed (Binance klines).  A bar of an interval opens at every         *)
(* multiple of the interval's length; the bar that is still forming has    *)
(* provisional values, a closed bar has its final values.                  *)
(***************************************************************************)
IntervalMinutes(interval) ==
    CASE interval = "1m" -> 1
      [] interval = "3m" -> 3
      [] interval = "5m" -> 5
      [] interval = "15m" -> 15
      [] interval = "30m" -> 30
      [] interval = "1h" -> 60
      [] interval = "4h" -> 240
      [] interval = "1d" -> 1440

FeedTimes(interval, clock) ==
    {t \in 0..clock : t % IntervalMinutes(interval) = 0}

FeedValue(interval, t, clock) ==
    IF t + IntervalMinutes(interval) <= clock THEN "final" ELSE "forming"

FeedBar(interval, t, clock) ==
    [open_time |-> t, val |-> FeedValue(interval, t, clock)]

\* the k earliest elements of a set of times
Earliest(S, k) == {t \in S : Cardinality({u \in S : u < t}) < k}

\* a feed that ignores endTime
fetch_klines_ignoring_end(timeframe, limit, start_time, end_time, overlap, clock) ==
    LET iv == IntervalMinutes(timeframe.interval)
        inrange == {t \in FeedTimes(timeframe.interval, clock) :
                        t >= start_time - overlap * iv}
        cap == IF limit <= PageLimit THEN limit ELSE PageLimit
    IN {FeedBar(timeframe.interval, t, clock) : t \in Earliest(inrange, cap)}

\* BinanceSpotClient.fetch_klines: at most min(limit, cap) bars, ascending,
\* with open time in [start_time, end_time]; `overlap` is the number of bars
\* before start_time the feed adds at the boundary
fetch_klines(timeframe, limit, start_time, end_time, overlap, clock) ==
    LET iv == IntervalMinutes(timeframe.interval)
        inrange == {t \in FeedTimes(timeframe.interval, clock) :
                        /\ t >= start_time - overlap * iv
                        /\ t <= end_time}
        cap == IF limit <= PageLimit THEN limit ELSE PageLimit
    IN {FeedBar(timeframe.interval, t, clock) : t \in Earliest(inrange, cap)}

(***************************************************************************)
(* core/candles/repository.py: the store, a set of rows.                   *)
(***************************************************************************)
Row(symbol, timeframe, bar) ==
    [symbol |-> Upper(symbol), timeframe |-> Lower(timeframe),
     open_time |-> bar.open_time, val |-> bar.val]

SameKey(r, q) ==
    /\ r.symbol = q.symbol
    /\ r.timeframe = q.timeframe
    /\ r.open_time = q.open_time

\* CandleRepository._base_filter
_base_filter(st, symbol, timeframe) ==
    {r \in st : r.symbol = Upper(symbol) /\ r.timeframe = Lower(timeframe)}

\* CandleRepository.latest_open_time
latest_open_time(st, symbol, timeframe) ==
    LET rows == _base_filter(st, symbol, timeframe)
    IN IF rows = {} THEN None ELSE MaxOf({r.open_time : r \in rows})

\* a plain INSERT into a table without the key constraint
upsert_frame_insert_only(st, symbol, timeframe, frame) ==
    st \cup {Row(symbol, timeframe, b) : b \in frame}

\* an upsert that loses the row of a key it finds already stored
upsert_frame_conflict_loses(st, symbol, timeframe, frame) ==
    LET records == {Row(symbol, timeframe, b) : b \in frame}
    IN {r \in st : ~ \E q \in records : SameKey(r, q)}
         \cup {q \in records : ~ \E r \in st : SameKey(r, q)}

\* a write that replaces the stored series of the pair by the batch
upsert_frame_replace_series(st, symbol, timeframe, frame) ==
    (st \ _base_filter(st, symbol, timeframe))
        \cup {Row(symbol, timeframe, b) : b \in frame}

\* CandleRepository.upsert_frame: INSERT ... ON CONFLICT DO UPDATE
upsert_frame(st, symbol, timeframe, frame) ==
    LET records == {Row(symbol, timeframe, b) : b \in frame}
    IN {r \in st : ~ \E q \in records : SameKey(r, q)} \cup records

\* a count of the statements executed, not of the rows they affect
rowcount_statements(frame) == IF frame = {} THEN 0 ELSE 1

\* result.rowcount of the upsert statement
rowcount(frame) == Cardinality(frame)

(***************************************************************************)
(* core/candles/sync.py: pure helpers.                                     *)
(***************************************************************************)
_timeframe_delta(timeframe_key) ==
    Max2(timeframe_map[timeframe_key].refresh_minutes, 1)

\* requested_start taking precedence over the stored cursor
_next_start_requested_first(existing, requested_start, delta) ==
    IF requested_start # None THEN requested_start
    ELSE IF existing # None THEN existing + delta ELSE None

\* resuming at the latest stored bar itself
_next_start_at_latest(existing, requested_start, delta) ==
    IF existing # None THEN existing ELSE requested_start

_next_start(existing, requested_start, delta) ==
    IF existing # None THEN existing + delta ELSE requested_start

\* line 70: end_time or utc_now()
UpperBound(end_time, clock) == IF end_time # None THEN end_time ELSE clock

\* no boundary filter
FilterFrame_keep_all(frame, fetch_start) == frame

\* line 90, the boundary filter
FilterFrame(frame, fetch_start) == {b \in frame : b.open_time >= fetch_start}

\* lines 79-92: the page requested from fetch_start, after the filter
Page(timeframe_key, fetch_start, upper_bound, ov, clock) ==
    FilterFrame(fetch_klines(timeframe_map[timeframe_key], PageLimit,
                             fetch_start, upper_bound, ov, clock),
                fetch_start)

\* a cursor that stays on the last bar of the batch
AdvanceToLast(frame, delta) == MaxOf({b.open_time : b \in frame})

\* lines 95-96: the next fetch_start after a batch
Advance(frame, delta) == MaxOf({b.open_time : b \in frame}) + delta

\* lines 72-98 run to the end with no failure and nothing interleaved:
\* the store an uninterrupted page loop leaves
RECURSIVE RunFrom(_, _, _, _, _, _, _)
RunFrom(st, symbol, timeframe_key, fetch_start, upper_bound, ov, clock) ==
    IF fetch_start > upper_bound THEN st
    ELSE LET frame == Page(timeframe_key, fetch_start, upper_bound, ov, clock)
         IN IF frame = {} THEN st
            ELSE RunFrom(upsert_frame(st, symbol, timeframe_key, frame),
                         symbol, timeframe_key,
                         Advance(frame, _timeframe_delta(timeframe_key)),
                         upper_bound, ov, clock)

\* lines 59-100 run to the end: the store an uninterrupted call leaves
RunSync(st, symbol, timeframe_key, start_time, end_time, ov, clock) ==
    LET fetch_start == _next_start(latest_open_time(st, symbol, timeframe_key),
                                   start_time, _timeframe_delta(timeframe_key))
    IN IF fetch_start = None THEN st
       ELSE RunFrom(st, symbol, timeframe_key, fetch_start,
                    UpperBound(end_time, clock), ov, clock)


(***************************************************************************)
(* State.                                                                  *)
(***************************************************************************)
\* the two clients of one synchronizer configuration: "daemon" runs
\* sync_symbols (tools/candle_sync.py, main.py), "fetcher" calls
\* sync_symbol_timeframe directly (core/data_fetcher.py, backtest _fetch)
Procs == {"daemon", "fetcher"}

VARIABLES
    now,            \* utc_now(), in minutes
    overlap,        \* bars before the requested start the feed's pages carry
    store,          \* the candles table: a set of rows
    pc,             \* pc[p]: where process p stands
    job,            \* job[p]: the top-level invocation p is running
    call,           \* call[p]: the locals of p's sync_symbol_timeframe
    outcome,        \* outcome[p]: what p's last invocation gave its caller
    hist,           \* hist[p]: p's previous sync_symbol_timeframe (history)
    jobs_started,   \* invocations started so far
    failures,       \* feed calls that have failed so far
    trade,          \* the trade whose exit the backtest is simulating
    bt,             \* the backtest run (BacktestEngine.run)
    candles,        \* the candles table with all its columns
    scheduler,      \* the scheduler the periodic jobs are registered on
    market          \* the call of MarketDataFetcher.fetch_symbol

vars == <<now, overlap, store, pc, job, call, outcome, hist, jobs_started, failures,
          trade, bt, candles, scheduler, market>>

\* the variables of the synchronizer, and those of the backtest
sync_vars == <<now, overlap, store, pc, job, call, outcome, hist, jobs_started, failures>>
backtest_vars == <<trade, bt, candles, scheduler, market>>

\* the inputs of the invocations
\* sync_symbols: the configured symbols; << >> stands for timeframes=None
SymbolLists == {<<"btcusdt", "ETHUSDT">>}
TimeframeLists == {<< >>}
JobWindows == {<<None, None>>, <<0, None>>}
\* sync_symbol_timeframe: "1h" is not a configured timeframe
SymbolArgs == {"BTCUSDT"}
TimeframeArgs == {"5m", "1h"}
\* <<start_time, end_time>>
Windows == {<<0, None>>, <<6, None>>, <<0, 6>>}

NoJob ==
    [kind |-> "none", symbols |-> << >>, requested_timeframes |-> << >>,
     start_time |-> None, end_time |-> None, si |-> 1, ti |-> 1, stats |-> << >>]

\* the locals of sync_symbol_timeframe, and what the call has done so far:
\* clock0 and base are the clock and the pair's rows when the call began,
\* fetches counts its feed calls, raw the bars of the page in hand before the
\* filter, alone says that no other process wrote the pair during the call,
\* fresh that none wrote it a page fetched before the feed last changed,
\* reads counts the call's reads of the store
NoCall ==
    [symbol |-> "", timeframe_key |-> "", latest |-> None, fetch_start |-> None,
     upper_bound |-> None, inserted |-> 0, frame |-> {}, error |-> "",
     clock0 |-> None, base |-> {}, fetches |-> 0, raw |-> 0, alone |-> TRUE,
     fresh |-> TRUE, reads |-> 0]

NoOutcome == [status |-> "none", error |-> "", stats |-> << >>]

NoHist ==
    [status |-> "none", symbol |-> "", timeframe_key |-> "", start_time |-> None,
     end_time |-> None, base |-> {}, rows |-> {}]

SyncStats(symbol, timeframe, inserted) ==
    [symbol |-> symbol, timeframe |-> timeframe, inserted |-> inserted]

\* the arguments of the call p is in
CurSymbol(p) == job[p].symbols[job[p].si]
CurTimeframe(p) == job[p].requested_timeframes[job[p].ti]

\* the rows of the pair p's call is about
PairRows(p) == _base_filter(store, call[p].symbol, call[p].timeframe_key)

SamePair(s1, t1, s2, t2) == Upper(s1) = Upper(s2) /\ Lower(t1) = Lower(t2)

\* no trade is being simulated, no backtest is running
NoTrade == [state |-> "none"]
NoRun == [state |-> "none"]
NoTable == [state |-> "none"]
NoScheduler == [state |-> "none"]
NoFetch == [state |-> "none"]

Init ==
    /\ now = InitNow
    /\ overlap \in 0..MaxOverlap
    /\ store = {}
    /\ pc = [p \in Procs |-> "idle"]
    /\ job = [p \in Procs |-> NoJob]
    /\ call = [p \in Procs |-> NoCall]
    /\ outcome = [p \in Procs |-> NoOutcome]
    /\ hist = [p \in Procs |-> NoHist]
    /\ jobs_started = 0
    /\ failures = 0
    /\ trade = NoTrade
    /\ bt = NoRun
    /\ candles = NoTable
    /\ scheduler = NoScheduler
    /\ market = NoFetch

(***************************************************************************)
(* The environment: time passes, and with it the feed gains bars and the   *)
(* forming bar becomes final.  The history of previous calls is kept only  *)
(* while the feed is unchanged.                                            *)
(***************************************************************************)
\* the next minute at which a bar of a configured timeframe opens
NextOpen(clock) ==
    CHOOSE t \in (clock + 1)..(clock + 1440) :
        /\ \E k \in DOMAIN timeframe_map :
                t % IntervalMinutes(timeframe_map[k].interval) = 0
        /\ \A u \in (clock + 1)..(t - 1) : \A k \in DOMAIN timeframe_map :
                u % IntervalMinutes(timeframe_map[k].interval) # 0

\* bar openings passed since the start of the run
Ticks(clock) ==
    Cardinality({t \in (InitNow + 1)..clock :
        \E k \in DOMAIN timeframe_map :
            t % IntervalMinutes(timeframe_map[k].interval) = 0})

Tick ==
    /\ Ticks(now) < MaxTicks
    /\ now' = NextOpen(now)
    /\ hist' = [p \in Procs |-> NoHist]
    /\ UNCHANGED backtest_vars
    /\ UNCHANGED <<overlap, store, pc, job, call, outcome, jobs_started, failures>>

(***************************************************************************)
(* CandleSynchronizer.sync_symbols (sync.py:102-116), entry.               *)
(***************************************************************************)
sync_symbols(p, symbols, timeframes, start_time, end_time) ==
    /\ p = "daemon"
    /\ pc[p] = "idle"
    /\ jobs_started < MaxJobs
    /\ jobs_started' = jobs_started + 1
    /\ job' = [job EXCEPT ![p] =
                [kind |-> "sync_symbols",
                 symbols |-> symbols,
                 requested_timeframes |->
                     IF timeframes # << >> THEN timeframes ELSE timeframe_keys,
                 start_time |-> start_time, end_time |-> end_time,
                 si |-> 1, ti |-> 1, stats |-> << >>]]
    /\ call' = [call EXCEPT ![p] = NoCall]
    /\ outcome' = [outcome EXCEPT ![p] = NoOutcome]
    /\ pc' = [pc EXCEPT ![p] = "call"]
    /\ UNCHANGED <<now, overlap, store, hist, failures>>

CallSyncSymbols(p, symbols, timeframes, start_time, end_time) ==
    /\ sync_symbols(p, symbols, timeframes, start_time, end_time)
    /\ UNCHANGED backtest_vars

(***************************************************************************)
(* A direct call of sync_symbol_timeframe (data_fetcher.py:51-55).         *)
(***************************************************************************)
CallSyncSymbolTimeframe(p, symbol, timeframe_key, start_time, end_time) ==
    /\ p = "fetcher"
    /\ pc[p] = "idle"
    /\ jobs_started < MaxJobs
    /\ jobs_started' = jobs_started + 1
    /\ job' = [job EXCEPT ![p] =
                [kind |-> "sync_symbol_timeframe",
                 symbols |-> <<symbol>>,
                 requested_timeframes |-> <<timeframe_key>>,
                 start_time |-> start_time, end_time |-> end_time,
                 si |-> 1, ti |-> 1, stats |-> << >>]]
    /\ call' = [call EXCEPT ![p] = NoCall]
    /\ outcome' = [outcome EXCEPT ![p] = NoOutcome]
    /\ pc' = [pc EXCEPT ![p] = "call"]
    /\ UNCHANGED backtest_vars
    /\ UNCHANGED <<now, overlap, store, hist, failures>>

(***************************************************************************)
(* sync_symbol_timeframe, lines 56-71: the key check, the cursor read and  *)
(* the first fetch_start.                                                  *)
(***************************************************************************)
\* the cursor read placed before the key check
BeginCallReadFirst(symbol, timeframe_key, start_time, end_time, st, clock) ==
    LET latest == latest_open_time(st, symbol, timeframe_key)
        c0 == [NoCall EXCEPT !.symbol = symbol, !.timeframe_key = timeframe_key,
                             !.clock0 = clock,
                             !.base = _base_filter(st, symbol, timeframe_key),
                             !.latest = latest, !.reads = 1]
    IN IF timeframe_key \notin DOMAIN timeframe_map
       THEN [next |-> "raised", call |-> [c0 EXCEPT !.error = "KeyError"]]
       ELSE LET fetch_start == _next_start(latest, start_time,
                                           _timeframe_delta(timeframe_key))
            IN IF fetch_start = None
               THEN [next |-> "returned", call |-> c0]
               ELSE [next |-> "loop",
                     call |-> [c0 EXCEPT
                        !.fetch_start = fetch_start,
                        !.upper_bound = UpperBound(end_time, clock)]]

BeginCall(symbol, timeframe_key, start_time, end_time, st, clock) ==
    LET c0 == [NoCall EXCEPT !.symbol = symbol, !.timeframe_key = timeframe_key,
                             !.clock0 = clock,
                             !.base = _base_filter(st, symbol, timeframe_key)]
    IN IF timeframe_key \notin DOMAIN timeframe_map
       THEN [next |-> "raised", call |-> [c0 EXCEPT !.error = "KeyError"]]
       ELSE LET delta == _timeframe_delta(timeframe_key)
                latest == latest_open_time(st, symbol, timeframe_key)
                fetch_start == _next_start(latest, start_time, delta)
            IN IF fetch_start = None
               THEN [next |-> "returned",
                     call |-> [c0 EXCEPT !.latest = latest, !.reads = 1]]
               ELSE [next |-> "loop",
                     call |-> [c0 EXCEPT
                        !.latest = latest,
                        !.reads = 1,
                        !.fetch_start = fetch_start,
                        !.upper_bound = UpperBound(end_time, clock)]]

sync_symbol_timeframe(p) ==
    /\ pc[p] = "call"
    /\ LET b == BeginCall(CurSymbol(p), CurTimeframe(p),
                          job[p].start_time, job[p].end_time, store, now)
       IN /\ call' = [call EXCEPT ![p] = b.call]
          /\ pc' = [pc EXCEPT ![p] = b.next]
    /\ UNCHANGED backtest_vars
    /\ UNCHANGED <<now, overlap, store, job, outcome, hist, jobs_started, failures>>

(***************************************************************************)
(* The page loop, lines 72-98.                                             *)
(***************************************************************************)
\* line 72: the while condition is false
LoopExit(p) ==
    /\ pc[p] = "loop"
    /\ call[p].fetch_start > call[p].upper_bound
    /\ pc' = [pc EXCEPT ![p] = "returned"]
    /\ UNCHANGED backtest_vars
    /\ UNCHANGED <<now, overlap, store, job, call, outcome, hist, jobs_started, failures>>

\* where the loop goes after the page: lines 86-92
AfterPage(frame) == IF frame = {} THEN "returned" ELSE "upsert"

\* lines 79-92: one feed call, the empty check, the boundary filter
FetchPage(p) ==
    /\ pc[p] = "loop"
    /\ call[p].fetch_start <= call[p].upper_bound
    /\ LET c == call[p]
           raw == fetch_klines(timeframe_map[c.timeframe_key], PageLimit,
                               c.fetch_start, c.upper_bound, overlap, now)
           frame == Page(c.timeframe_key, c.fetch_start, c.upper_bound, overlap, now)
       IN /\ call' = [call EXCEPT ![p] =
                        [c EXCEPT !.frame = frame,
                                  !.fetches = c.fetches + 1,
                                  !.raw = Cardinality(raw)]]
          /\ pc' = [pc EXCEPT ![p] = AfterPage(frame)]
    /\ UNCHANGED backtest_vars
    /\ UNCHANGED <<now, overlap, store, job, outcome, hist, jobs_started, failures>>

\* a failed feed call that is tried again
AfterFailureRetry == "loop"

\* where a failed feed call leaves the caller: the exception is not caught
AfterFailure == "raised"

\* a failure that rolls the whole call back, not only the page in hand
FetchFailsRollback(p) ==
    /\ pc[p] = "loop"
    /\ call[p].fetch_start <= call[p].upper_bound
    /\ failures < MaxFailures
    /\ failures' = failures + 1
    /\ call' = [call EXCEPT ![p].error = "HTTPError",
                            ![p].fetches = call[p].fetches + 1]
    /\ store' = (store \ _base_filter(store, call[p].symbol, call[p].timeframe_key))
                    \cup call[p].base
    /\ pc' = [pc EXCEPT ![p] = AfterFailure]
    /\ UNCHANGED backtest_vars
    /\ UNCHANGED <<now, overlap, job, outcome, hist, jobs_started>>

\* binance.py:34-35: the request times out or raise_for_status raises
FetchFails(p) ==
    /\ pc[p] = "loop"
    /\ call[p].fetch_start <= call[p].upper_bound
    /\ failures < MaxFailures
    /\ failures' = failures + 1
    /\ call' = [call EXCEPT ![p].error = "HTTPError",
                            ![p].fetches = call[p].fetches + 1]
    /\ pc' = [pc EXCEPT ![p] = AfterFailure]
    /\ UNCHANGED backtest_vars
    /\ UNCHANGED <<now, overlap, store, job, outcome, hist, jobs_started>>

\* the other processes' records after p wrote the pair (symbol, timeframe_key)
Disturb(p, symbol, timeframe_key) ==
    [q \in Procs |->
        IF q # p /\ pc[q] # "idle"
              /\ SamePair(call[q].symbol, call[q].timeframe_key, symbol, timeframe_key)
        THEN [call[q] EXCEPT !.alone = FALSE,
                             !.fresh = call[q].fresh /\ call[p].clock0 = now]
        ELSE call[q]]

Forget(p, symbol, timeframe_key) ==
    [q \in Procs |->
        IF q # p /\ SamePair(hist[q].symbol, hist[q].timeframe_key, symbol, timeframe_key)
        THEN NoHist
        ELSE hist[q]]

\* lines 94-98: upsert the batch in one transaction, advance the cursor
UpsertPage(p) ==
    /\ pc[p] = "upsert"
    /\ LET c == call[p]
           delta == _timeframe_delta(c.timeframe_key)
           fetch_start == Advance(c.frame, delta)
       IN /\ store' = upsert_frame(store, c.symbol, c.timeframe_key, c.frame)
          /\ call' = [Disturb(p, c.symbol, c.timeframe_key) EXCEPT ![p] =
                        [c EXCEPT !.inserted = c.inserted + rowcount(c.frame),
                                  !.fetch_start = fetch_start,
                                  !.frame = {},
                                  !.raw = 0]]
          /\ hist' = Forget(p, c.symbol, c.timeframe_key)
          /\ pc' = [pc EXCEPT ![p] =
                        IF fetch_start > c.upper_bound THEN "returned" ELSE "loop"]
    /\ UNCHANGED backtest_vars
    /\ UNCHANGED <<now, overlap, job, outcome, jobs_started, failures>>

(***************************************************************************)
(* Back in the caller: sync_symbols appends the stats and goes on with the *)
(* next pair (lines 113-116); an exception leaves every loop.              *)
(***************************************************************************)
\* what hist keeps of the call that ends: its arguments and the pair's rows
\* before and after, when the feed did not change and nobody else wrote the
\* pair during the call, and the call got as far as the feed
Remember(p, status) ==
    IF call[p].alone /\ call[p].clock0 = now /\ call[p].error # "KeyError"
    THEN [status |-> status,
          symbol |-> call[p].symbol, timeframe_key |-> call[p].timeframe_key,
          start_time |-> job[p].start_time, end_time |-> job[p].end_time,
          base |-> call[p].base, rows |-> PairRows(p)]
    ELSE NoHist

\* the loops the other way round: symbols inside
NextPairSymbolsInner(j) ==
    IF j.si = Len(j.symbols)
    THEN [si |-> IF j.ti = Len(j.requested_timeframes) THEN j.si + 1 ELSE 1,
          ti |-> j.ti + 1]
    ELSE [si |-> j.si + 1, ti |-> j.ti]

\* the loop indices after the pair (si, ti): timeframes are the inner loop
NextPair(j) ==
    IF j.ti = Len(j.requested_timeframes)
    THEN [si |-> j.si + 1, ti |-> 1]
    ELSE [si |-> j.si, ti |-> j.ti + 1]

Return(p) ==
    /\ pc[p] = "returned"
    /\ LET j == job[p]
           stat == SyncStats(call[p].symbol, call[p].timeframe_key, call[p].inserted)
           stats == Append(j.stats, stat)
           n == NextPair(j)
       IN IF n.si > Len(j.symbols)
          THEN /\ outcome' = [outcome EXCEPT ![p] =
                                [status |-> "ok", error |-> "", stats |-> stats]]
               /\ job' = [job EXCEPT ![p] = NoJob]
               /\ pc' = [pc EXCEPT ![p] = "idle"]
          ELSE /\ job' = [job EXCEPT ![p] =
                            [j EXCEPT !.si = n.si, !.ti = n.ti, !.stats = stats]]
               /\ pc' = [pc EXCEPT ![p] = "call"]
               /\ UNCHANGED outcome
    /\ call' = [call EXCEPT ![p] = NoCall]
    /\ hist' = [hist EXCEPT ![p] = Remember(p, "returned")]
    /\ UNCHANGED backtest_vars
    /\ UNCHANGED <<now, overlap, store, jobs_started, failures>>

Propagate(p) ==
    /\ pc[p] = "raised"
    /\ outcome' = [outcome EXCEPT ![p] =
                    [status |-> "error", error |-> call[p].error, stats |-> << >>]]
    /\ job' = [job EXCEPT ![p] = NoJob]
    /\ call' = [call EXCEPT ![p] = NoCall]
    /\ hist' = [hist EXCEPT ![p] = Remember(p, "raised")]
    /\ pc' = [pc EXCEPT ![p] = "idle"]
    /\ UNCHANGED backtest_vars
    /\ UNCHANGED <<now, overlap, store, jobs_started, failures>>

Next ==
    \/ Tick
    \/ \E p \in Procs, symbols \in SymbolLists, timeframes \in TimeframeLists,
          w \in JobWindows :
            CallSyncSymbols(p, symbols, timeframes, w[1], w[2])
    \/ \E p \in Procs, symbol \in SymbolArgs, timeframe_key \in TimeframeArgs,
          w \in Windows :
            CallSyncSymbolTimeframe(p, symbol, timeframe_key, w[1], w[2])
    \/ \E p \in Procs : sync_symbol_timeframe(p)
    \/ \E p \in Procs : LoopExit(p)
    \/ \E p \in Procs : FetchPage(p)
    \/ \E p \in Procs : FetchFails(p)
    \/ \E p \in Procs : UpsertPage(p)
    \/ \E p \in Procs : Return(p)
    \/ \E p \in Procs : Propagate(p)

Spec == Init /\ [][Next]_vars

(***************************************************************************)
(* Properties.                                                             *)
(***************************************************************************)
\* the latest open time of a set of rows, None when there is none
LatestOf(rows) == IF rows = {} THEN None ELSE MaxOf({r.open_time : r \in rows})

\* the first fetch_start of p's call, from the pair's rows when it began
FirstStart(p) ==
    IF call[p].base # {}
    THEN LatestOf(call[p].base) + _timeframe_delta(call[p].timeframe_key)
    ELSE job[p].start_time

\* C1: gap-freeness of sync_one.  Against a feed that returns the earliest
\* bars of [start, end] and nothing else, when sync_symbol_timeframe returns
\* without error every bar the feed had in [first fetch_start, upper_bound]
\* has a row in the store, for every timeframe of the timeframe map.
C1_GapFree ==
    \A p \in Procs :
        (/\ pc[p] = "returned"
         /\ overlap = 0
         /\ call[p].upper_bound # None)
        => \A t \in FeedTimes(timeframe_map[call[p].timeframe_key].interval,
                              call[p].clock0) :
              (FirstStart(p) <= t /\ t <= call[p].upper_bound)
              => \E r \in PairRows(p) : r.open_time = t

\* C2: duplicate-freeness.  In every reachable state the store has at most
\* one row per key (symbol, timeframe, open_time).
C2_NoDuplicateKeys ==
    \A r \in store : \A q \in store : SameKey(r, q) => r = q

\* two calls that began on the empty pair wrote some key twice
C2_Witness ==
    \E p \in Procs : \E q \in Procs :
        /\ p # q
        /\ pc[p] # "idle" /\ pc[q] # "idle"
        /\ SamePair(call[p].symbol, call[p].timeframe_key,
                    call[q].symbol, call[q].timeframe_key)
        /\ call[p].base = {} /\ call[q].base = {}
        /\ call[p].inserted > 0 /\ call[q].inserted > 0
        /\ Cardinality(PairRows(p)) < call[p].inserted + call[q].inserted
        /\ \E r \in PairRows(p) : r.val # FeedValue(r.timeframe, r.open_time, now)

\* p's call has the arguments of the call hist[p] remembers
SameArguments(p) ==
    /\ hist[p].symbol = call[p].symbol
    /\ hist[p].timeframe_key = call[p].timeframe_key
    /\ hist[p].start_time = job[p].start_time
    /\ hist[p].end_time = job[p].end_time

\* p's call ran with the feed unchanged and no other writer on its pair
Undisturbed(p) == call[p].alone /\ call[p].clock0 = now

\* C3: idempotence of sync_one.  A second sync_symbol_timeframe with the
\* arguments of the first, the feed unchanged in between, returns
\* inserted = 0 and leaves the pair's rows as the first call left them.
C3_Idempotent ==
    \A p \in Procs :
        (/\ pc[p] = "returned"
         /\ hist[p].status = "returned"
         /\ SameArguments(p)
         /\ Undisturbed(p))
        => /\ call[p].inserted = 0
           /\ PairRows(p) = hist[p].rows

\* a second call has returned after a first one that stored bars
C3_Witness ==
    \E p \in Procs :
        /\ pc[p] = "returned"
        /\ hist[p].status = "returned"
        /\ SameArguments(p)
        /\ Undisturbed(p)
        /\ hist[p].rows # hist[p].base

\* C4 as stated: the latest stored open time of a pair never decreases, and
\* after a sync_one with upper bound U it does not exceed U.
C4_CursorWithinBound ==
    \A p \in Procs :
        pc[p] = "returned" /\ call[p].upper_bound # None /\ call[p].alone
        => LatestOf(PairRows(p)) <= call[p].upper_bound

\* C4 as amended: the latest stored open time of a pair never decreases, and
\* whenever it advances, a sync_one on that pair stored the batch that
\* advanced it and the new value does not exceed that call's upper bound.
C4_MonotonicCursor ==
    [][\A r \in (store' \ store) \cup (store \ store') :
         LET before == LatestOf(_base_filter(store, r.symbol, r.timeframe))
             after == LatestOf(_base_filter(store', r.symbol, r.timeframe))
         IN /\ before <= after
            /\ before < after =>
                 \E p \in Procs :
                    /\ pc[p] = "upsert"
                    /\ pc'[p] # "upsert"
                    /\ SamePair(call[p].symbol, call[p].timeframe_key,
                                r.symbol, r.timeframe)
                    /\ after <= call[p].upper_bound]_vars

\* a call with an upper bound before the current time has stored bars
C4_Witness ==
    \E p \in Procs :
        /\ pc[p] = "returned"
        /\ call[p].inserted > 0
        /\ call[p].upper_bound < now
        /\ LatestOf(PairRows(p)) <= call[p].upper_bound

\* the rows an uninterrupted run of p's call would have stored
Uninterrupted(p, base) ==
    RunSync(base, call[p].symbol, call[p].timeframe_key,
            job[p].start_time, job[p].end_time, overlap, now)

\* C5: crash-safety and resumability.  When the feed raises on a page, the
\* batches of the pages before it are in the store: the pair holds what an
\* uninterrupted run stores below the failed page's start.  A later call with
\* the same arguments, the feed unchanged, starts at latest + delta and ends
\* with the rows an uninterrupted run would have stored.
C5_CrashSafeResumable ==
    \A p \in Procs :
        /\ (/\ pc[p] = "raised"
            /\ call[p].error = "HTTPError"
            /\ Undisturbed(p))
           => PairRows(p) =
                call[p].base \cup
                {r \in Uninterrupted(p, call[p].base) :
                    /\ SamePair(r.symbol, r.timeframe,
                                call[p].symbol, call[p].timeframe_key)
                    /\ r.open_time < call[p].fetch_start}
        /\ (/\ pc[p] \in {"loop", "upsert", "returned"}
            /\ hist[p].status = "raised"
            /\ SameArguments(p)
            /\ Undisturbed(p))
           => /\ hist[p].rows # {} =>
                    FirstStart(p) = LatestOf(hist[p].rows)
                                      + _timeframe_delta(call[p].timeframe_key)
              /\ call[p].fetches = 0 => call[p].fetch_start = FirstStart(p)
              /\ pc[p] = "returned" =>
                    PairRows(p) = Uninterrupted(p, hist[p].base)

\* a call that failed after its first page was resumed and stored the rest
C5_Witness ==
    \E p \in Procs :
        /\ pc[p] = "returned"
        /\ hist[p].status = "raised"
        /\ SameArguments(p)
        /\ Undisturbed(p)
        /\ hist[p].rows # hist[p].base
        /\ PairRows(p) # hist[p].rows

\* C6: overlapping runs are safe.  When two calls on the same pair with the
\* same arguments have interleaved against an unchanged feed, the pair holds
\* exactly the rows a single run would have stored: one row per key, no bar
\* missing, every row written carrying the feed's values.
C6_OverlappingRuns ==
    \A p \in Procs : \A q \in Procs :
        (/\ p # q
         /\ pc[p] = "returned" /\ pc[q] = "returned"
         /\ SamePair(call[p].symbol, call[p].timeframe_key,
                     call[q].symbol, call[q].timeframe_key)
         /\ job[p].start_time = job[q].start_time
         /\ job[p].end_time = job[q].end_time
         /\ call[p].clock0 = now /\ call[q].clock0 = now
         /\ call[p].fresh /\ call[q].fresh
         /\ call[p].base \subseteq call[q].base)
        => /\ PairRows(p) = Uninterrupted(p, call[p].base)
           /\ \A r \in PairRows(p) : \A u \in PairRows(p) : SameKey(r, u) => r = u
           /\ \A r \in PairRows(p) \ call[p].base :
                 r.val = FeedValue(r.timeframe, r.open_time, now)

\* both calls fetched and stored bars of the pair
C6_Witness ==
    \E p \in Procs : \E q \in Procs :
        /\ p # q
        /\ pc[p] = "returned" /\ pc[q] = "returned"
        /\ SamePair(call[p].symbol, call[p].timeframe_key,
                    call[q].symbol, call[q].timeframe_key)
        /\ job[p].start_time = job[q].start_time
        /\ job[p].end_time = job[q].end_time
        /\ call[p].clock0 = now /\ call[q].clock0 = now
        /\ call[p].fresh /\ call[q].fresh
        /\ call[p].base \subseteq call[q].base
        /\ call[p].inserted > 1 /\ call[q].inserted > 1
        /\ ~ call[p].alone /\ ~ call[q].alone

\* C7: cursor initialisation.  With a latest stored open time L the first
\* feed request starts at L + delta and requested_start is not used; with
\* no row stored it starts at requested_start; with neither, the call makes
\* no feed call, writes nothing and returns inserted = 0.
C7_CursorInitialisation ==
    \A p \in Procs :
        LET L == LatestOf(call[p].base)
            delta == _timeframe_delta(call[p].timeframe_key)
            noop == call[p].base = {} /\ job[p].start_time = None
        IN /\ (pc[p] = "loop" /\ call[p].fetches = 0) =>
                /\ ~ noop
                /\ L # None => call[p].fetch_start = L + delta
                /\ L = None => call[p].fetch_start = job[p].start_time
           /\ (pc[p] \in {"loop", "upsert", "returned"} /\ call[p].error = "" /\ noop) =>
                /\ pc[p] = "returned"
                /\ call[p].fetches = 0
                /\ call[p].inserted = 0
                /\ call[p].alone => PairRows(p) = {}
           /\ (pc[p] = "returned" /\ call[p].fetches = 0 /\ ~ noop) =>
                FirstStart(p) > call[p].upper_bound

\* a call on a pair with stored rows is about to make its first request, at
\* a start other than the requested one
C7_Witness ==
    \E p \in Procs :
        /\ pc[p] = "loop"
        /\ call[p].fetches = 0
        /\ call[p].base # {}
        /\ job[p].start_time # None
        /\ call[p].fetch_start # job[p].start_time

\* C8: boundary-overlap filter.  No bar with open time before fetch_start is
\* passed to upsert, even when the feed returned such bars; when the page is
\* empty, or empty after the filter, the loop stops and nothing is written:
\* every row the call wrote is a new bar at or after its first fetch_start.
C8_BoundaryFilter ==
    \A p \in Procs :
        /\ pc[p] = "upsert" =>
              /\ call[p].frame # {}
              /\ \A b \in call[p].frame : b.open_time >= call[p].fetch_start
        /\ (pc[p] \in {"loop", "upsert", "returned"} /\ call[p].fetches > 0
                /\ call[p].frame = {} /\ call[p].raw > 0) =>
              pc[p] = "returned"
        /\ (pc[p] \in {"loop", "upsert", "returned"} /\ call[p].alone) =>
              /\ Cardinality(PairRows(p)) = Cardinality(call[p].base) + call[p].inserted
              /\ call[p].base \subseteq PairRows(p)
              /\ \A r \in PairRows(p) \ call[p].base : r.open_time >= FirstStart(p)

\* the feed returned a bar before fetch_start and the filter dropped it
C8_Witness ==
    \E p \in Procs :
        /\ pc[p] = "upsert"
        /\ call[p].raw > Cardinality(call[p].frame)

\* C9: no retry on feed failure.  Once a feed call of sync_one has raised,
\* the invocation makes no further feed call and no further upsert; the
\* error goes to the caller of sync_one, of sync_many and of the job as it
\* was raised, and the invocation ends there.
C9_NoRetry ==
    /\ [](\A p \in Procs : call[p].error # "" => pc[p] = "raised")
    /\ [][\A p \in Procs :
            (pc[p] = "raised" /\ call[p].error = "HTTPError") =>
                \/ /\ pc'[p] = "raised"
                   /\ call'[p].fetches = call[p].fetches
                   /\ call'[p].inserted = call[p].inserted
                \/ /\ pc'[p] = "idle"
                   /\ store' = store
                   /\ job'[p] = NoJob
                   /\ outcome'[p] = [status |-> "error", error |-> "HTTPError",
                                     stats |-> << >>]]_vars

\* sync_symbols has handed the feed's error to its caller
C9_Witness ==
    /\ outcome["daemon"].status = "error"
    /\ outcome["daemon"].error = "HTTPError"
    /\ failures = 1

\* the pairs of symbols x timeframes in the order of the loops: symbols
\* outside, timeframes inside
PairAt(symbols, timeframes, k) ==
    [symbol |-> symbols[((k - 1) \div Len(timeframes)) + 1],
     timeframe |-> timeframes[((k - 1) % Len(timeframes)) + 1]]

InProductOrder(stats, symbols, timeframes) ==
    /\ Len(stats) <= Len(symbols) * Len(timeframes)
    /\ \A k \in 1..Len(stats) :
          /\ stats[k].symbol = PairAt(symbols, timeframes, k).symbol
          /\ stats[k].timeframe = PairAt(symbols, timeframes, k).timeframe

\* C10: sync_many ordering and abort.  sync_symbols calls sync_one once for
\* every pair of symbols x timeframes, one at a time, symbols in the outer
\* loop; when the call for a pair raises, no call is started for a later
\* pair and the rows written for the earlier pairs stay in the store.
C10_OrderAndAbort ==
    /\ [](\A p \in Procs :
            /\ job[p].kind = "sync_symbols" =>
                 /\ InProductOrder(job[p].stats, job[p].symbols,
                                   job[p].requested_timeframes)
                 /\ pc[p] \in {"loop", "upsert", "returned", "raised"} =>
                      /\ Len(job[p].stats) <
                            Len(job[p].symbols) * Len(job[p].requested_timeframes)
                      /\ call[p].symbol =
                            PairAt(job[p].symbols, job[p].requested_timeframes,
                                   Len(job[p].stats) + 1).symbol
                      /\ call[p].timeframe_key =
                            PairAt(job[p].symbols, job[p].requested_timeframes,
                                   Len(job[p].stats) + 1).timeframe
            /\ (p = "daemon" /\ outcome[p].status = "ok") =>
                 \E symbols \in SymbolLists :
                    /\ Len(outcome[p].stats) = Len(symbols) * Len(timeframe_keys)
                    /\ InProductOrder(outcome[p].stats, symbols, timeframe_keys))
    /\ [][\A p \in Procs :
            (pc[p] = "raised" /\ pc'[p] # "raised") =>
                /\ pc'[p] = "idle"
                /\ job'[p] = NoJob
                /\ outcome'[p].status = "error"
                /\ store' = store
                /\ \A k \in 1..Len(job[p].stats) :
                      Cardinality(_base_filter(store', job[p].stats[k].symbol,
                                               job[p].stats[k].timeframe))
                        >= job[p].stats[k].inserted]_vars

\* sync_symbols was aborted by a failure after pairs that had stored rows
C10_Witness ==
    \E p \in Procs :
        /\ job[p].kind = "sync_symbols"
        /\ pc[p] = "raised"
        /\ Len(job[p].stats) >= 2
        /\ job[p].stats[1].inserted > 0

\* C11: unknown cadence fails before I/O.  sync_symbol_timeframe called
\* with a key that is not in the timeframe map raises KeyError having made
\* no read of the store and no feed call, and the store is as it was.
C11_UnknownCadenceBeforeIO ==
    /\ [](\A p \in Procs :
            /\ (pc[p] \in {"loop", "upsert", "returned", "raised"}
                    /\ call[p].timeframe_key \notin DOMAIN timeframe_map) =>
                  /\ pc[p] = "raised"
                  /\ call[p].error = "KeyError"
                  /\ call[p].reads = 0
                  /\ call[p].fetches = 0
                  /\ call[p].inserted = 0
            /\ call[p].error = "KeyError" =>
                  call[p].timeframe_key \notin DOMAIN timeframe_map)
    /\ [][\A p \in Procs :
            (pc[p] = "call" /\ pc'[p] # "call"
                /\ CurTimeframe(p) \notin DOMAIN timeframe_map) =>
                  /\ store' = store
                  /\ pc'[p] = "raised"]_vars

\* a call with an unknown key has raised while the pair's symbol has rows
C11_Witness ==
    \E p \in Procs :
        /\ pc[p] = "raised"
        /\ call[p].error = "KeyError"
        /\ \E r \in store : r.symbol = Upper(call[p].symbol)

(***************************************************************************)
(* backtest/backtest_engine.py: the exit simulation of one trade, lines    *)
(* 277-338.  Prices are exact decimals counted in hundredths; a percentage *)
(* is a whole number of percent.                                           *)
(***************************************************************************)
\* the largest lookahead of a simulated trade
MaxLookahead == 2

\* price * pct / 100
PctOf(price, pct) == (price * pct) \div 100

\* line 278
TargetPrice(entry_price, take_profit_pct) == PctOf(entry_price, 100 + take_profit_pct)

\* line 279
InitialStop(entry_price, trailing_stop_pct) == PctOf(entry_price, 100 - trailing_stop_pct)

\* the highest price taken from the last bar alone
NewHighestLastBar(highest_price, high) == high

\* line 312
NewHighest(highest_price, high) == Max2(highest_price, high)

\* line 313
Ratchet(trailing_stop_price, highest_price, trailing_stop_pct) ==
    Max2(trailing_stop_price, PctOf(highest_price, 100 - trailing_stop_pct))

\* lines 277-283: the trade opened on the signal bar window[1]; window[1 + k]
\* is base_frame.iloc[idx + k]; exit_offset stands for exit_timestamp
StartTrade(window, lookahead, take_profit_pct, trailing_stop_pct) ==
    LET entry_price == window[1].close
    IN [state |-> "open",
        window |-> window,
        lookahead |-> lookahead,
        take_profit_pct |-> take_profit_pct,
        trailing_stop_pct |-> trailing_stop_pct,
        entry_price |-> entry_price,
        target_price |-> TargetPrice(entry_price, take_profit_pct),
        trailing_stop_price |-> InitialStop(entry_price, trailing_stop_pct),
        highest_price |-> entry_price,
        exit_price |-> entry_price,
        exit_reason |-> "lookahead_exit",
        exit_offset |-> lookahead,
        offset |-> 0,
        return_pct |-> <<0, 1>>]

\* the trailing stop tried before the take-profit
ExitStepStopFirst(t) ==
    LET offset == t.offset + 1
        candle == t.window[1 + offset]
        highest_price == NewHighest(t.highest_price, candle.high)
        trailing_stop_price ==
            Ratchet(t.trailing_stop_price, highest_price, t.trailing_stop_pct)
        u == [t EXCEPT !.offset = offset]
    IN IF candle.low <= trailing_stop_price
       THEN [u EXCEPT !.highest_price = highest_price,
                      !.trailing_stop_price = trailing_stop_price,
                      !.exit_price = trailing_stop_price,
                      !.exit_reason = "trailing_stop",
                      !.exit_offset = offset,
                      !.state = "exited"]
       ELSE IF candle.high >= t.target_price
       THEN [u EXCEPT !.exit_price = t.target_price,
                      !.exit_reason = "take_profit",
                      !.exit_offset = offset,
                      !.state = "exited"]
       ELSE IF offset = t.lookahead
       THEN [u EXCEPT !.highest_price = highest_price,
                      !.trailing_stop_price = trailing_stop_price,
                      !.exit_price = candle.close,
                      !.exit_reason = "lookahead_exit",
                      !.exit_offset = offset,
                      !.state = "exited"]
       ELSE [u EXCEPT !.highest_price = highest_price,
                      !.trailing_stop_price = trailing_stop_price]

\* the bar's low tried against the stop of the bar before
ExitStepStaleStop(t) ==
    LET offset == t.offset + 1
        candle == t.window[1 + offset]
        highest_price == NewHighest(t.highest_price, candle.high)
        trailing_stop_price ==
            Ratchet(t.trailing_stop_price, highest_price, t.trailing_stop_pct)
        u == [t EXCEPT !.offset = offset]
    IN IF candle.high >= t.target_price
       THEN [u EXCEPT !.exit_price = t.target_price,
                      !.exit_reason = "take_profit",
                      !.exit_offset = offset,
                      !.state = "exited"]
       ELSE IF candle.low <= t.trailing_stop_price
       THEN [u EXCEPT !.highest_price = highest_price,
                      !.exit_price = t.trailing_stop_price,
                      !.exit_reason = "trailing_stop",
                      !.exit_offset = offset,
                      !.state = "exited"]
       ELSE IF offset = t.lookahead
       THEN [u EXCEPT !.highest_price = highest_price,
                      !.trailing_stop_price = trailing_stop_price,
                      !.exit_price = candle.close,
                      !.exit_reason = "lookahead_exit",
                      !.exit_offset = offset,
                      !.state = "exited"]
       ELSE [u EXCEPT !.highest_price = highest_price,
                      !.trailing_stop_price = trailing_stop_price]

\* lines 293-336: one pass of the loop over the offsets 1..lookahead
ExitStep(t) ==
    LET offset == t.offset + 1
        candle == t.window[1 + offset]
        highest_price == NewHighest(t.highest_price, candle.high)
        trailing_stop_price ==
            Ratchet(t.trailing_stop_price, highest_price, t.trailing_stop_pct)
        u == [t EXCEPT !.offset = offset]
    IN IF candle.high >= t.target_price
       THEN [u EXCEPT !.exit_price = t.target_price,
                      !.exit_reason = "take_profit",
                      !.exit_offset = offset,
                      !.state = "exited"]
       ELSE IF candle.low <= trailing_stop_price
       THEN [u EXCEPT !.highest_price = highest_price,
                      !.trailing_stop_price = trailing_stop_price,
                      !.exit_price = trailing_stop_price,
                      !.exit_reason = "trailing_stop",
                      !.exit_offset = offset,
                      !.state = "exited"]
       ELSE IF offset = t.lookahead
       THEN [u EXCEPT !.highest_price = highest_price,
                      !.trailing_stop_price = trailing_stop_price,
                      !.exit_price = candle.close,
                      !.exit_reason = "lookahead_exit",
                      !.exit_offset = offset,
                      !.state = "exited"]
       ELSE [u EXCEPT !.highest_price = highest_price,
                      !.trailing_stop_price = trailing_stop_price]

\* a return taken over the exit price
ReturnPctOfExit(exit_price, entry_price) == <<exit_price - entry_price, exit_price>>

\* line 338: ret as the fraction <<numerator, denominator>>
ReturnPct(exit_price, entry_price) == <<exit_price - entry_price, entry_price>>

\* lines 338-359: the trade is recorded
RecordTrade(t) ==
    [t EXCEPT !.state = "recorded",
              !.return_pct = ReturnPct(t.exit_price, t.entry_price)]

\* lines 277-359 for one trade
RECURSIVE SimulateExit(_)
SimulateExit(t) ==
    IF t.state = "open" THEN SimulateExit(ExitStep(t)) ELSE RecordTrade(t)

(***************************************************************************)
(* The exit simulation on its own: every window of bars, one offset of the *)
(* loop per step.                                                          *)
(***************************************************************************)
\* the bars of the windows: high, low and close in hundredths
SignalCloses == {10000}
Highs == {10000, 10100, 10300}
Lows == {9700, 9850, 10000}
TakeProfitPcts == {2}
TrailingStopPcts == {2, 4}

PriceBar(high, low, close) == [high |-> high, low |-> low, close |-> close]

\* bars that open beyond the previous range: one wholly below the initial
\* stops, one wholly above the target
GapBars == {PriceBar(9500, 9400, 9500), PriceBar(10300, 10250, 10300)}

WindowBars ==
    {b \in {PriceBar(h, l, c) : h \in Highs, l \in Lows, c \in Highs \cup Lows} :
        b.low <= b.close /\ b.close <= b.high} \cup GapBars

SignalBars == {PriceBar(c, c, c) : c \in SignalCloses}

\* the windows base_frame.iloc[idx .. idx + lookahead]
ExitWindows(lookahead) ==
    {w \in [1..(lookahead + 1) -> SignalBars \cup WindowBars] :
        /\ w[1] \in SignalBars
        /\ \A k \in 2..(lookahead + 1) : w[k] \in WindowBars}

InitExit ==
    /\ now = InitNow
    /\ overlap = 0
    /\ store = {}
    /\ pc = [p \in Procs |-> "idle"]
    /\ job = [p \in Procs |-> NoJob]
    /\ call = [p \in Procs |-> NoCall]
    /\ outcome = [p \in Procs |-> NoOutcome]
    /\ hist = [p \in Procs |-> NoHist]
    /\ jobs_started = 0
    /\ failures = 0
    /\ bt = NoRun
    /\ candles = NoTable
    /\ scheduler = NoScheduler
    /\ market = NoFetch
    /\ \E lookahead \in 1..MaxLookahead :
       \E window \in ExitWindows(lookahead) :
       \E take_profit_pct \in TakeProfitPcts :
       \E trailing_stop_pct \in TrailingStopPcts :
            trade = StartTrade(window, lookahead, take_profit_pct, trailing_stop_pct)

\* one pass of the loop of lines 293-336
SimulateOffset ==
    /\ trade.state = "open"
    /\ trade' = ExitStep(trade)
    /\ UNCHANGED sync_vars
    /\ UNCHANGED bt
    /\ UNCHANGED candles
    /\ UNCHANGED scheduler
    /\ UNCHANGED market

\* lines 338-359
CloseTrade ==
    /\ trade.state = "exited"
    /\ trade' = RecordTrade(trade)
    /\ UNCHANGED sync_vars
    /\ UNCHANGED bt
    /\ UNCHANGED candles
    /\ UNCHANGED scheduler
    /\ UNCHANGED market

NextExit == SimulateOffset \/ CloseTrade

SpecExit == InitExit /\ [][NextExit]_vars

\* the exit rules stated over the whole window: the entry price, the target,
\* and the stop in force on the bar at offset k, which follows the highest
\* high of the offsets 1..k and never falls below the entry's stop
EntryOf(t) == t.window[1].close
TargetOf(t) == PctOf(EntryOf(t), 100 + t.take_profit_pct)
HighestAt(t, k) == MaxOf({EntryOf(t)} \cup {t.window[1 + j].high : j \in 1..k})
StopAt(t, k) == PctOf(HighestAt(t, k), 100 - t.trailing_stop_pct)

\* no exit fired on the offsets before k
NoExitBefore(t, k) ==
    \A j \in 1..(k - 1) :
        /\ t.window[1 + j].high < TargetOf(t)
        /\ t.window[1 + j].low > StopAt(t, j)

ExitReasons == {"take_profit", "trailing_stop", "lookahead_exit"}

\* C12: exit priority and uniqueness.  Every simulated trade ends with one
\* exit reason out of take-profit, trailing-stop and timeout, which then
\* stays; on the first offset whose bar has high >= target with no exit
\* before it, the trade exits at the target with reason take-profit, even
\* when that bar's low is at or below the trailing stop.
C12_ExitPriority ==
    /\ [](/\ trade.state = "open" => trade.offset < trade.lookahead
          /\ trade.state \in {"exited", "recorded"} =>
                /\ trade.exit_reason \in ExitReasons
                /\ trade.exit_offset \in 1..trade.lookahead
                /\ \A k \in 1..trade.lookahead :
                      (NoExitBefore(trade, k)
                          /\ trade.window[1 + k].high >= TargetOf(trade)) =>
                            /\ trade.exit_reason = "take_profit"
                            /\ trade.exit_price = TargetOf(trade)
                            /\ trade.exit_offset = k)
    /\ [][trade.state \in {"exited", "recorded"} =>
            /\ trade'.exit_reason = trade.exit_reason
            /\ trade'.exit_price = trade.exit_price
            /\ trade'.exit_offset = trade.exit_offset]_vars

\* a trade left by take-profit on a bar whose low had reached the stop
C12_Witness ==
    /\ trade.state = "recorded"
    /\ trade.exit_reason = "take_profit"
    /\ trade.exit_offset > 1
    /\ trade.window[1 + trade.exit_offset].low <= trade.trailing_stop_price

\* C13: trailing ratchet monotonicity.  Within one trade's exit simulation,
\* whatever the highs of the bars, the trailing stop after an offset is at
\* least its value after the offset before and never below E * (1 - s);
\* the highest price likewise never decreases and is never below E.
C13_RatchetMonotonic ==
    /\ [](trade.state # "none" =>
            /\ trade.trailing_stop_price >=
                    PctOf(EntryOf(trade), 100 - trade.trailing_stop_pct)
            /\ trade.highest_price >= EntryOf(trade))
    /\ [][trade.state # "none" =>
            /\ trade'.trailing_stop_price >= trade.trailing_stop_price
            /\ trade'.highest_price >= trade.highest_price]_vars

\* the stop was tightened on a bar and kept on a later bar with a lower high
C13_Witness ==
    /\ trade.state # "none"
    /\ trade.offset = 2
    /\ trade.window[3].high < trade.window[2].high
    /\ trade.exit_reason # "take_profit"
    /\ trade.trailing_stop_price >
            PctOf(EntryOf(trade), 100 - trade.trailing_stop_pct)
    /\ trade.trailing_stop_price >
            PctOf(trade.window[3].high, 100 - trade.trailing_stop_pct)

\* C14: trailing-stop and timeout rules.  On a bar where take-profit did
\* not fire the stop is first ratcheted with that bar's high, and if the
\* bar's low is at or below it the trade exits at the stop with reason
\* trailing-stop at that bar; with no exit on the offsets 1..N the trade
\* exits at the close of the bar at offset N with reason timeout; the
\* recorded return is (exit_price - E) / E, E the close of the signal bar.
C14_StopAndTimeout ==
    /\ trade.state \in {"exited", "recorded"} =>
          /\ \A k \in 1..trade.lookahead :
                (/\ NoExitBefore(trade, k)
                 /\ trade.window[1 + k].high < TargetOf(trade)
                 /\ trade.window[1 + k].low <= StopAt(trade, k)) =>
                    /\ trade.exit_reason = "trailing_stop"
                    /\ trade.exit_price = StopAt(trade, k)
                    /\ trade.exit_offset = k
          /\ NoExitBefore(trade, trade.lookahead + 1) =>
                /\ trade.exit_reason = "lookahead_exit"
                /\ trade.exit_price = trade.window[1 + trade.lookahead].close
                /\ trade.exit_offset = trade.lookahead
    /\ trade.state = "recorded" =>
          /\ trade.entry_price = trade.window[1].close
          /\ trade.return_pct[1] = trade.exit_price - trade.window[1].close
          /\ trade.return_pct[2] = trade.window[1].close

\* a trade stopped on a bar whose low was above the stop of the bar before
\* and at or below the stop ratcheted with its own high
C14_Witness ==
    /\ trade.state = "recorded"
    /\ trade.exit_reason = "trailing_stop"
    /\ trade.exit_offset = trade.lookahead
    /\ trade.window[1 + trade.exit_offset].low
            > StopAt(trade, trade.exit_offset - 1)
    /\ trade.return_pct[1] < 0

(***************************************************************************)
(* backtest/backtest_engine.py: warmup and fetch limits.  `timeframes` is  *)
(* the engine's self.timeframes, the metadata of Settings.timeframes.      *)
(***************************************************************************)
\* math.ceil(a / b) on positive integers
CeilDiv(a, b) == (a + b - 1) \div b

base_timeframe == "1h"

_timeframe_minutes(timeframes, timeframe) ==
    Max2(timeframes[timeframe].refresh_minutes, 1)

_calculate_timeframe_limits(timeframes, base_limit) ==
    LET base_minutes == _timeframe_minutes(timeframes, base_timeframe)
        total_minutes == base_limit * base_minutes
    IN [key \in DOMAIN timeframes |->
          IF key = base_timeframe THEN base_limit
          ELSE LET computed == CeilDiv(total_minutes,
                                       _timeframe_minutes(timeframes, key))
                   floored == IF timeframes[key].lookback > 0
                              THEN Max2(timeframes[key].lookback, computed)
                              ELSE computed
               IN Max2(2, floored)]

_calculate_warmup_bars(timeframes) ==
    LET base_minutes == _timeframe_minutes(timeframes, base_timeframe)
        needed == {CeilDiv(Max2(timeframes[key].lookback, 0)
                               * _timeframe_minutes(timeframes, key),
                           base_minutes) :
                      key \in {k \in DOMAIN timeframes :
                                  Max2(timeframes[k].lookback, 0) # 0}}
    IN Max2(MaxOf(needed \cup {0}), 2)

(***************************************************************************)
(* core/candles/repository.py: get_candles.  A frame is the sequence of    *)
(* the bars read, ascending by open_time.                                  *)
(***************************************************************************)
\* frame.sort_values("open_time"): the rows of S as an ascending sequence
SortValues(S) ==
    LET ranked == {<<Cardinality({q \in S : q.open_time < r.open_time}) + 1, r>> :
                      r \in S}
    IN [i \in 1..Cardinality(S) |-> (CHOOSE p \in ranked : p[1] = i)[2]]

BarOf(r) == [open_time |-> r.open_time, val |-> r.val]

\* a read that keeps the oldest `limit` rows
get_candles_oldest(st, symbol, timeframe, limit) ==
    LET rows == _base_filter(st, symbol, timeframe)
        kept == {r \in rows :
                    Cardinality({q \in rows : q.open_time < r.open_time}) < limit}
    IN SortValues({BarOf(r) : r \in kept})

\* ORDER BY open_time DESC LIMIT limit, then sorted ascending
get_candles(st, symbol, timeframe, limit) ==
    LET rows == _base_filter(st, symbol, timeframe)
        kept == {r \in rows :
                    Cardinality({q \in rows : q.open_time > r.open_time}) < limit}
    IN SortValues({BarOf(r) : r \in kept})

(***************************************************************************)
(* The synchronizer of the engine, built from the same settings: the       *)
(* uninterrupted sync_symbol_timeframe of core/candles/sync.py over the    *)
(* engine's timeframes.                                                    *)
(***************************************************************************)
timeframe_delta_of(timeframes, timeframe_key) ==
    Max2(timeframes[timeframe_key].refresh_minutes, 1)

PageOf(timeframes, timeframe_key, fetch_start, upper_bound, ov, clock) ==
    FilterFrame(fetch_klines(timeframes[timeframe_key], PageLimit,
                             fetch_start, upper_bound, ov, clock),
                fetch_start)

RECURSIVE RunFromOf(_, _, _, _, _, _, _, _)
RunFromOf(timeframes, st, symbol, timeframe_key, fetch_start, upper_bound, ov, clock) ==
    IF fetch_start > upper_bound THEN st
    ELSE LET frame == PageOf(timeframes, timeframe_key, fetch_start,
                             upper_bound, ov, clock)
         IN IF frame = {} THEN st
            ELSE RunFromOf(timeframes,
                           upsert_frame(st, symbol, timeframe_key, frame),
                           symbol, timeframe_key,
                           Advance(frame, timeframe_delta_of(timeframes, timeframe_key)),
                           upper_bound, ov, clock)

RunSyncOf(timeframes, st, symbol, timeframe_key, start_time, end_time, ov, clock) ==
    LET fetch_start == _next_start(latest_open_time(st, symbol, timeframe_key),
                                   start_time,
                                   timeframe_delta_of(timeframes, timeframe_key))
    IN IF fetch_start = None THEN st
       ELSE RunFromOf(timeframes, st, symbol, timeframe_key, fetch_start,
                      UpperBound(end_time, clock), ov, clock)

(***************************************************************************)
(* The backtest run: BacktestEngine.run over a store that holds, for each  *)
(* configured cadence, a gap-free stretch of the feed's bars.              *)
(***************************************************************************)
BacktestNow == 15600
StaleBars == 8
LagBars == 2
MaxIterations == 2

\* Settings.candle_start_date: the feed has bars from minute 0 on, the
\* configured start of a first backfill is ten hours before BacktestNow
candle_start_date == 15000

BacktestSymbol == "BTCUSDT"

\* Settings.timeframes of the runs
BacktestSettings ==
    {<<"1h">>, <<"4h", "1H">>, <<"1h", "3m">>, <<"1d", "4h", "1h">>}

\* Settings.timeframes without the base cadence
BaselessSettings == {<<"4h">>, <<"1d", "4h">>, <<"5M", "3m", "5m">>}

Strategies == {"always", "sometimes"}

\* what the store holds of a cadence when the run starts
ShapeOf(scenario, key) ==
    CASE scenario = "stale_base" ->
            (IF key = base_timeframe THEN "stale" ELSE "enough")
      [] scenario = "lagging_base" ->
            (IF key = base_timeframe THEN "lagging" ELSE "enough")
      [] OTHER -> scenario

Scenarios(settings) ==
    IF base_timeframe \notin DOMAIN timeframe_metadata(settings)
    THEN {"enough", "empty"}
    ELSE {"enough", "lagging", "short", "stale_base", "lagging_base"}
            \cup (IF "3m" \in DOMAIN timeframe_metadata(settings)
                  THEN {} ELSE {"empty"})

\* the open times of `count` consecutive feed bars, the newest one `skip`
\* bars before the bar that is forming at `clock`
SeriesTimes(interval, count, skip, clock) ==
    LET iv == IntervalMinutes(interval)
        last == (clock \div iv) * iv
    IN {t \in {last - j * iv : j \in skip..(skip + count - 1)} : t >= 0}

SeriesOf(tf, shape, limit_c, clock) ==
    CASE shape = "enough"  -> SeriesTimes(tf.interval, limit_c + 1, 0, clock)
      [] shape = "stale"   -> SeriesTimes(tf.interval, limit_c + 1, StaleBars, clock)
      [] shape = "lagging" -> SeriesTimes(tf.interval, limit_c - 1, LagBars, clock)
      [] shape = "short"   -> SeriesTimes(tf.interval, limit_c - 1, 0, clock)
      [] shape = "empty"   -> {}

StoredSeries(settings, scenario, limit, clock) ==
    LET timeframes == timeframe_metadata(settings)
        limits == IF base_timeframe \in DOMAIN timeframes
                  THEN _calculate_timeframe_limits(timeframes, limit)
                  ELSE [key \in DOMAIN timeframes |-> 2]
    IN UNION {{Row(BacktestSymbol, key,
                   FeedBar(timeframes[key].interval, t, clock)) :
                  t \in SeriesOf(timeframes[key], ShapeOf(scenario, key),
                                 limits[key], clock)} :
              key \in DOMAIN timeframes}

\* the arguments of run: valid ones around the replay window, and one
\* invalid value of each argument
RunInputs(warmup_bars) ==
    {[limit |-> warmup_bars + lookahead + more, lookahead |-> lookahead,
      take_profit_pct |-> 2, trailing_stop_pct |-> 2] :
        lookahead \in 1..MaxLookahead, more \in (-1)..MaxIterations}
    \cup {[limit |-> 0, lookahead |-> 1, take_profit_pct |-> 2, trailing_stop_pct |-> 2],
          [limit |-> warmup_bars + 2, lookahead |-> 0,
           take_profit_pct |-> 2, trailing_stop_pct |-> 2],
          [limit |-> warmup_bars + 2, lookahead |-> 1,
           take_profit_pct |-> 0, trailing_stop_pct |-> 2],
          [limit |-> warmup_bars + 2, lookahead |-> 1,
           take_profit_pct |-> 2, trailing_stop_pct |-> 0]}

\* the warmup the arguments of run are chosen around
InputWarmup(settings) ==
    IF base_timeframe \in DOMAIN timeframe_metadata(settings)
    THEN _calculate_warmup_bars(timeframe_metadata(settings))
    ELSE 2

\* the engine about to be constructed and the arguments of the call of run
Engine(settings, strategy, inp) ==
    [state |-> "new",
     settings_timeframes |-> settings,
     strategy |-> strategy,
     timeframes |-> None,
     warmup_bars |-> None,
     symbol |-> BacktestSymbol,
     limit |-> inp.limit,
     lookahead |-> inp.lookahead,
     take_profit_pct |-> inp.take_profit_pct,
     trailing_stop_pct |-> inp.trailing_stop_pct,
     k |-> 0,
     timeframe_limits |-> None,
     frames |-> << >>,
     first_len |-> << >>,
     reads |-> << >>,
     syncs |-> << >>,
     store0 |-> {},
     idx |-> 0,
     evaluated |-> 0,
     skipped |-> {},
     calls |-> << >>,
     context_frames |-> << >>,
     trades |-> << >>,
     win_rate |-> None,
     average_return |-> None,
     cumulative_return |-> None,
     report |-> None,
     error |-> None,
     error_key |-> None]

TimeframesOf(b) == timeframe_metadata(b.settings_timeframes)
KeysOf(b) == KeyOrder(b.settings_timeframes)
LimitsOf(b) == _calculate_timeframe_limits(TimeframesOf(b), b.limit)

Raise(b, error, key) ==
    [b EXCEPT !.state = "raised", !.error = error, !.error_key = key]

InitBacktest ==
    /\ now = BacktestNow
    /\ overlap = 0
    /\ pc = [p \in Procs |-> "idle"]
    /\ job = [p \in Procs |-> NoJob]
    /\ call = [p \in Procs |-> NoCall]
    /\ outcome = [p \in Procs |-> NoOutcome]
    /\ hist = [p \in Procs |-> NoHist]
    /\ jobs_started = 0
    /\ failures = 0
    /\ trade = NoTrade
    /\ candles = NoTable
    /\ scheduler = NoScheduler
    /\ market = NoFetch
    /\ \E settings \in BacktestSettings \cup BaselessSettings :
       \E scenario \in Scenarios(settings) :
       \E strategy \in Strategies :
       \E inp \in RunInputs(InputWarmup(settings)) :
          /\ store = StoredSeries(settings, scenario, inp.limit, now)
          /\ bt = [Engine(settings, strategy, inp) EXCEPT !.store0 = store]

backtest_frame == <<now, overlap, pc, job, call, outcome, hist, jobs_started,
                    failures, trade, candles, scheduler, market>>

\* a constructor that does not look for the base cadence
__init__Unchecked ==
    /\ bt.state = "new"
    /\ bt' = [bt EXCEPT !.state = "ready", !.warmup_bars = 2]
    /\ UNCHANGED store
    /\ UNCHANGED backtest_frame

\* BacktestEngine.__init__, lines 56-61
__init__ ==
    /\ bt.state = "new"
    /\ LET timeframes == timeframe_metadata(bt.settings_timeframes)
           engine == [bt EXCEPT !.timeframes = timeframes]
       IN bt' = IF base_timeframe \notin DOMAIN timeframes
                THEN Raise(engine, "Backtest requires 1h timeframe in settings", None)
                ELSE [engine EXCEPT !.state = "ready",
                                    !.warmup_bars = _calculate_warmup_bars(timeframes)]
    /\ UNCHANGED store
    /\ UNCHANGED backtest_frame

\* a run that starts to load without checking its arguments
runUnchecked ==
    /\ bt.state = "ready"
    /\ bt' = [bt EXCEPT !.state = "fetch", !.k = 1]
    /\ UNCHANGED store
    /\ UNCHANGED backtest_frame

\* run, lines 176-183 and 75-76: the argument checks before any read
run ==
    /\ bt.state = "ready"
    /\ bt' = IF bt.lookahead <= 0
             THEN Raise(bt, "Backtest lookahead must be positive", None)
             ELSE IF bt.take_profit_pct <= 0
             THEN Raise(bt, "Take-profit percentage must be positive", None)
             ELSE IF bt.trailing_stop_pct <= 0
             THEN Raise(bt, "Trailing-stop percentage must be positive", None)
             ELSE IF bt.limit <= 0
             THEN Raise(bt, "Backtest limit must be positive", None)
             ELSE [bt EXCEPT !.state = "fetch", !.k = 1,
                             !.timeframe_limits =
                                 _calculate_timeframe_limits(TimeframesOf(bt), bt.limit)]
    /\ UNCHANGED store
    /\ UNCHANGED backtest_frame

\* lines 153-156: the frame of the cadence is kept and the loop moves on
Loaded(b, key, frame) ==
    [b EXCEPT !.frames = (key :> frame) @@ b.frames,
              !.k = b.k + 1,
              !.state = IF b.k = Len(KeysOf(b)) THEN "loaded" ELSE "fetch"]

\* _fetch, lines 120-125: the first read of the cadence
FetchRead ==
    /\ bt.state = "fetch"
    /\ LET key == KeysOf(bt)[bt.k]
           tf_limit == LimitsOf(bt)[key]
           frame == get_candles(store, bt.symbol, key, tf_limit)
           read == [bt EXCEPT !.reads = (key :> 1) @@ bt.reads,
                              !.first_len = (key :> Len(frame)) @@ bt.first_len]
       IN bt' = IF Len(frame) < tf_limit
                THEN [read EXCEPT !.state = "backfill"]
                ELSE Loaded(read, key, frame)
    /\ UNCHANGED store
    /\ UNCHANGED backtest_frame

\* a backfill that is skipped: the short cadence fails at once
FetchBackfillSkipped ==
    /\ bt.state = "backfill"
    /\ bt' = Raise(bt, "Insufficient candles", KeysOf(bt)[bt.k])
    /\ UNCHANGED store
    /\ UNCHANGED backtest_frame

\* _fetch, lines 125-145: the backfill of a short cadence, the second read
FetchBackfill ==
    /\ bt.state = "backfill"
    /\ LET key == KeysOf(bt)[bt.k]
           tf_limit == LimitsOf(bt)[key]
           synced == RunSyncOf(TimeframesOf(bt), store, bt.symbol, key,
                               candle_start_date, None, overlap, now)
           frame == get_candles(synced, bt.symbol, key, tf_limit)
           read == [bt EXCEPT !.reads = (key :> 2) @@ bt.reads,
                              !.syncs = Append(bt.syncs,
                                   [timeframe_key |-> key,
                                    start_time |-> candle_start_date,
                                    end_time |-> None])]
       IN /\ store' = synced
          /\ bt' = IF Len(frame) < tf_limit
                   THEN Raise(read, "Insufficient candles", key)
                   ELSE Loaded(read, key, frame)
    /\ UNCHANGED backtest_frame

\* a window check that lets a series of warmup + lookahead bars through
CheckWindowLoose ==
    /\ bt.state = "loaded"
    /\ bt' = IF Len(bt.frames[base_timeframe]) < bt.warmup_bars + bt.lookahead
             THEN Raise(bt, "Backtest requires at least", base_timeframe)
             ELSE [bt EXCEPT !.state = "replay", !.idx = bt.warmup_bars]
    /\ UNCHANGED store
    /\ UNCHANGED backtest_frame

\* run, lines 191-205: the replay window
CheckWindow ==
    /\ bt.state = "loaded"
    /\ bt' = IF Len(bt.frames[base_timeframe]) <= bt.warmup_bars + bt.lookahead
             THEN Raise(bt, "Backtest requires at least", base_timeframe)
             ELSE [bt EXCEPT !.state = "replay", !.idx = bt.warmup_bars]
    /\ UNCHANGED store
    /\ UNCHANGED backtest_frame

\* a context that leaves the bar of the current base index out
SubsetBefore(frame, current_time) ==
    SelectSeq(frame, LAMBDA b : b.open_time < current_time)

\* line 246: frame[frame["open_time"] <= current_time]
Subset(frame, current_time) ==
    SelectSeq(frame, LAMBDA b : b.open_time <= current_time)

\* a context check that looks at the base cadence only
SkipForBaseOnly(b, idx) ==
    LET current_time == b.frames[base_timeframe][idx + 1].open_time
    IN Len(Subset(b.frames[base_timeframe], current_time))
          < Max2(2, TimeframesOf(b)[base_timeframe].lookback)

\* lines 243-260: a cadence whose prefix is too short for its lookback
SkipFor(b, idx) ==
    LET current_time == b.frames[base_timeframe][idx + 1].open_time
    IN \E key \in DOMAIN b.frames :
          Len(Subset(b.frames[key], current_time))
              < Max2(2, TimeframesOf(b)[key].lookback)

\* the last index of the loop of line 220 (range is exclusive)
LastIndexInclusive(b) == Len(b.frames[base_timeframe]) - b.lookahead

\* a loop that stops one index early
LastIndexOneShort(b) == Len(b.frames[base_timeframe]) - b.lookahead - 2

LastIndex(b) == Len(b.frames[base_timeframe]) - b.lookahead - 1

\* strategy.check_signal
Signals(strategy) == IF strategy = "always" THEN {TRUE} ELSE BOOLEAN

\* entry and exit price of a recorded trade: a loss, a flat trade, a gain
TradeOutcomes == {<<10, 9>>, <<10, 10>>, <<10, 11>>}

\* lines 293-336: the offset of the bar the simulated trade exits on; of the
\* outcomes drawn here the stop is hit on the first bar after the signal,
\* the target and the timeout are reached on the last bar of the window
exit_offset_signal_bar(outcome_prices, lookahead) == 0

exit_offset(outcome_prices, lookahead) ==
    IF outcome_prices[2] < outcome_prices[1] THEN 1 ELSE lookahead

\* lines 244-258: the context handed to the evaluator, one frame per loaded
\* cadence
context_frames(b, current_time) ==
    [key \in DOMAIN b.frames |-> Subset(b.frames[key], current_time)]

\* lines 220-359: one pass of the replay loop.  The prices of the bars are
\* not part of a row here: the record of a trade keeps the base index, the
\* offset of the last bar of its lookahead window, the return of one of
\* the outcomes of the exit simulation and the bar that outcome exits on
ReplayStep ==
    /\ bt.state = "replay"
    /\ bt.idx <= LastIndex(bt)
    /\ LET base_frame == bt.frames[base_timeframe]
           current_time == base_frame[bt.idx + 1].open_time
       IN IF SkipFor(bt, bt.idx)
          THEN bt' = [bt EXCEPT !.skipped = @ \cup {bt.idx}, !.idx = @ + 1]
          ELSE \E triggered \in Signals(bt.strategy) :
               \E outcome_prices \in IF triggered THEN TradeOutcomes
                                                 ELSE {<<10, 10>>} :
                  LET offset == exit_offset(outcome_prices, bt.lookahead)
                  IN bt' = [bt EXCEPT
                           !.evaluated = @ + 1,
                           !.calls = Append(@, [index |-> bt.idx,
                                                triggered |-> triggered]),
                           !.context_frames = context_frames(bt, current_time),
                           !.trades = IF triggered
                                      THEN Append(@, [index |-> bt.idx,
                                                      timestamp |-> current_time,
                                                      last_offset |-> bt.lookahead,
                                                      exit_index |-> bt.idx + offset,
                                                      exit_timestamp |->
                                                          base_frame[bt.idx + offset + 1].open_time,
                                                      return_pct |->
                                                          ReturnPct(outcome_prices[2],
                                                                    outcome_prices[1])])
                                      ELSE @,
                           !.idx = @ + 1]
    /\ UNCHANGED store
    /\ UNCHANGED backtest_frame

\* a number of the summary is a fraction <<numerator, denominator>> with a
\* positive denominator; the rounding of floats is not modelled
RatAdd(a, b) == <<a[1] * b[2] + b[1] * a[2], a[2] * b[2]>>
RatMul(a, b) == <<a[1] * b[1], a[2] * b[2]>>
RatEq(a, b) == a[1] * b[2] = b[1] * a[2]

\* a count of wins that takes a flat trade for a win
WinsNonNegative(returns) ==
    Cardinality({j \in DOMAIN returns : returns[j][1] >= 0})

\* line 368: sum(1 for r in returns if r > 0)
Wins(returns) ==
    Cardinality({j \in DOMAIN returns : returns[j][1] > 0})

\* line 370: sum(returns)
RECURSIVE SumReturns(_)
SumReturns(returns) ==
    IF returns = << >> THEN <<0, 1>>
    ELSE RatAdd(SumReturns(SubSeq(returns, 1, Len(returns) - 1)),
                returns[Len(returns)])

\* lines 371-373: cumulative_return *= 1 + r, in the order of the list
RECURSIVE Compound(_)
Compound(returns) ==
    IF returns = << >> THEN <<1, 1>>
    ELSE RatMul(Compound(SubSeq(returns, 1, Len(returns) - 1)),
                RatAdd(<<1, 1>>, returns[Len(returns)]))

\* an empty summary with cumulative_return 0
EmptySummaryZero ==
    [win_rate |-> <<0, 1>>, average_return |-> <<0, 1>>,
     cumulative_return |-> <<0, 1>>]

\* lines 383-386
EmptySummary ==
    [win_rate |-> <<0, 1>>, average_return |-> <<0, 1>>,
     cumulative_return |-> <<1, 1>>]

\* lines 366-386
Summary(trades) ==
    IF trades # << >>
    THEN LET returns == [j \in DOMAIN trades |-> trades[j].return_pct]
             total == SumReturns(returns)
         IN [win_rate |-> <<Wins(returns), Len(returns)>>,
             average_return |-> <<total[1], total[2] * Len(returns)>>,
             cumulative_return |-> Compound(returns)]
    ELSE EmptySummary

\* lines 362-390: the summary is returned
Summarize ==
    /\ bt.state = "replay"
    /\ bt.idx > LastIndex(bt)
    /\ bt' = [bt EXCEPT !.state = "done",
                        !.win_rate = Summary(bt.trades).win_rate,
                        !.average_return = Summary(bt.trades).average_return,
                        !.cumulative_return = Summary(bt.trades).cumulative_return]
    /\ UNCHANGED store
    /\ UNCHANGED backtest_frame

\* main, lines 486-494: the numbers handed to the summary line, before
\* they are formatted
Report ==
    /\ bt.state = "done"
    /\ bt' = [bt EXCEPT
                !.state = "reported",
                !.report = [trades |-> Len(bt.trades),
                            win_rate |-> bt.win_rate,
                            avg_return |-> RatMul(bt.average_return, <<100, 1>>),
                            cumulative |->
                                RatMul(RatAdd(bt.cumulative_return, <<-1, 1>>),
                                       <<100, 1>>)]]
    /\ UNCHANGED store
    /\ UNCHANGED backtest_frame

NextBacktest ==
    \/ __init__
    \/ run
    \/ FetchRead
    \/ FetchBackfill
    \/ CheckWindow
    \/ ReplayStep
    \/ Summarize
    \/ Report

SpecBacktest == InitBacktest /\ [][NextBacktest]_vars

\* the stored series of a cadence has every feed bar between its oldest
\* and its newest row
GapFreeSeries(st, symbol, timeframes, key) ==
    LET times == {r.open_time : r \in _base_filter(st, symbol, key)}
        iv == IntervalMinutes(timeframes[key].interval)
    IN \A t \in times : t + iv \in times \/ \A u \in times : u <= t

\* the prefix of a loaded cadence at base index idx is long enough
EnoughContext(b, key, idx) ==
    Len(Subset(b.frames[key], b.frames[base_timeframe][idx + 1].open_time))
        >= Max2(2, TimeframesOf(b)[key].lookback)

\* C15: warmup guarantee.  In a run whose setup succeeded on gap-free
\* stored series, at every base index i >= warmup the prefix of every
\* cadence holds at least max(2, lookback) bars, and no index of the
\* replay is skipped.
C15_WarmupGuarantee ==
    (/\ bt.state \in {"replay", "done"}
     /\ \A key \in DOMAIN TimeframesOf(bt) :
           /\ GapFreeSeries(bt.store0, bt.symbol, TimeframesOf(bt), key)
           /\ GapFreeSeries(store, bt.symbol, TimeframesOf(bt), key)) =>
        /\ \A i \in bt.warmup_bars..(Len(bt.frames[base_timeframe]) - 1) :
              \A key \in DOMAIN bt.frames : EnoughContext(bt, key, i)
        /\ bt.skipped = {}

\* C16: warmup arithmetic.  The warmup of an engine is max(2, max over the
\* cadences with lookback L > 0 of ceil(L * M / M_base)), M the length of
\* a bar of the cadence in minutes; it is 1200 for 1h, 4h and 1d.
C16_WarmupArithmetic ==
    LET timeframes == TimeframesOf(bt)
        base_minutes == IntervalMinutes(timeframes[base_timeframe].interval)
        needed == {CeilDiv(timeframes[key].lookback
                               * IntervalMinutes(timeframes[key].interval),
                           base_minutes) :
                      key \in {k \in DOMAIN timeframes : timeframes[k].lookback > 0}}
    IN bt.state \notin {"none", "new", "raised"} =>
          /\ bt.warmup_bars = Max2(2, MaxOf(needed \cup {0}))
          /\ DOMAIN timeframes = {"1h", "4h", "1d"} => bt.warmup_bars = 1200

\* C17: end-to-end trade count.  With a strategy that triggers on every
\* evaluation and no skipped index, a finished run over a base series of
\* `length` bars has exactly length - warmup - lookahead trades, one per
\* base index from warmup to length - lookahead - 1, in that order.
C17_TradeCount ==
    (/\ bt.state = "done"
     /\ bt.strategy = "always"
     /\ bt.skipped = {}) =>
        LET length == Len(bt.frames[base_timeframe])
        IN /\ Len(bt.trades) = length - bt.warmup_bars - bt.lookahead
           /\ \A j \in 1..Len(bt.trades) :
                 /\ bt.trades[j].index = bt.warmup_bars + j - 1
                 /\ bt.trades[j].index <= length - bt.lookahead - 1
                 /\ bt.trades[j].timestamp
                        = bt.frames[base_timeframe][bt.trades[j].index + 1].open_time
           /\ bt.evaluated = Len(bt.trades)

C17_Witness ==
    /\ bt.state = "done"
    /\ bt.strategy = "always"
    /\ bt.skipped = {}
    /\ Len(bt.trades) >= 2
    /\ Len(bt.frames[base_timeframe]) = bt.warmup_bars + bt.lookahead + Len(bt.trades)
    /\ Cardinality(DOMAIN bt.frames) = 2

\* the run is past the check of the replay window
WindowChecked(b) ==
    \/ b.state \in {"replay", "done"}
    \/ b.state = "raised" /\ b.error = "Backtest requires at least"

\* C18 as stated: the replay-window error is raised exactly when the base
\* series has fewer than warmup + lookahead bars.
C18_ThresholdAsStated ==
    WindowChecked(bt) =>
        (bt.state = "raised"
            <=> Len(bt.frames[base_timeframe]) < bt.warmup_bars + bt.lookahead)

\* C18: insufficient-data threshold.  After loading, run raises the
\* replay-window error exactly when the base series has at most
\* warmup + lookahead bars; with warmup + lookahead + 1 bars or more it
\* does not raise it.
C18_Threshold ==
    WindowChecked(bt) =>
        (bt.state = "raised"
            <=> Len(bt.frames[base_timeframe]) <= bt.warmup_bars + bt.lookahead)

C18_Witness ==
    /\ bt.state = "raised"
    /\ bt.error = "Backtest requires at least"
    /\ Len(bt.frames[base_timeframe]) = bt.warmup_bars + bt.lookahead
    /\ bt.syncs # << >>

\* a backfill of the cadence was attempted in this run
BackfillAttempted(b, key) ==
    \E j \in DOMAIN b.syncs : b.syncs[j].timeframe_key = key

\* C19 as stated: every insufficient-data error of run, for a cadence or
\* for the replay window, comes after a backfill of the short series in
\* the same run.
C19_OnlyAfterBackfillAsStated ==
    (/\ bt.state = "raised"
     /\ bt.error \in {"Insufficient candles", "Backtest requires at least"}) =>
        BackfillAttempted(bt, bt.error_key)

\* C19: insufficient-data only after backfill.  When run raises the error
\* of a cadence short of its fetch limit, a backfill of that cadence was
\* attempted earlier in the run and the read after it was still short; the
\* replay-window error depends only on the loaded base series, which has
\* `limit` bars, whether or not a backfill was attempted.
C19_OnlyAfterBackfill ==
    /\ (bt.state = "raised" /\ bt.error = "Insufficient candles") =>
          /\ BackfillAttempted(bt, bt.error_key)
          /\ bt.reads[bt.error_key] = 2
          /\ bt.first_len[bt.error_key] < LimitsOf(bt)[bt.error_key]
          /\ Len(get_candles(store, bt.symbol, bt.error_key,
                             LimitsOf(bt)[bt.error_key]))
                < LimitsOf(bt)[bt.error_key]
    /\ (bt.state = "raised" /\ bt.error = "Backtest requires at least") =>
          /\ Len(bt.frames[base_timeframe]) = bt.limit
          /\ bt.limit <= bt.warmup_bars + bt.lookahead

\* the second cadence of the run is still short after its backfill
C19_Witness ==
    /\ bt.state = "raised"
    /\ bt.error = "Insufficient candles"
    /\ bt.k = 2
    /\ BackfillAttempted(bt, bt.error_key)
    /\ store # bt.store0

\* the cadences _fetch is done with: loaded, or failed as still short
Fetched(b) ==
    DOMAIN b.frames
        \cup (IF b.state = "raised" /\ b.error = "Insufficient candles"
              THEN {b.error_key} ELSE {})

\* the bars of the frame are the newest stored bars of the cadence
NewestStored(frame, st, symbol, key) ==
    LET bars == {BarOf(r) : r \in _base_filter(st, symbol, key)}
        read == {frame[i] : i \in DOMAIN frame}
    IN /\ read \subseteq bars
       /\ \A b \in bars \ read : \A c \in read : b.open_time < c.open_time

Ascending(frame) ==
    \A i \in DOMAIN frame : \A j \in DOMAIN frame :
        i < j => frame[i].open_time < frame[j].open_time

\* C20: setup loading.  For each configured cadence _fetch reads the
\* newest limit_c stored bars; it backfills the cadence, from the
\* configured start date and with no end, if and only if that read was
\* short, at most once, and reads again; a cadence still short raises
\* insufficient-data, a loaded frame has exactly limit_c bars, ascending.
C20_SetupLoading ==
    /\ [](\A key \in Fetched(bt) :
            LET limit_c == LimitsOf(bt)[key]
                backfills == {j \in DOMAIN bt.syncs : bt.syncs[j].timeframe_key = key}
            IN /\ backfills # {} <=> bt.first_len[key] < limit_c
               /\ Cardinality(backfills) <= 1
               /\ \A j \in backfills :
                     /\ bt.syncs[j].start_time = candle_start_date
                     /\ bt.syncs[j].end_time = None
               /\ bt.reads[key] = IF backfills # {} THEN 2 ELSE 1
               /\ key \in DOMAIN bt.frames =>
                     /\ Len(bt.frames[key]) = limit_c
                     /\ Ascending(bt.frames[key])
                     /\ NewestStored(bt.frames[key], store, bt.symbol, key)
               /\ key \notin DOMAIN bt.frames =>
                     /\ backfills # {}
                     /\ Cardinality(_base_filter(store, bt.symbol, key)) < limit_c)
    /\ [][\A key \in DOMAIN bt'.first_len \ DOMAIN bt.first_len :
            /\ store' = store
            /\ bt'.first_len[key]
                  = Min2(Cardinality(_base_filter(store, bt.symbol, key)),
                         LimitsOf(bt)[key])]_vars

\* a cadence that was backfilled once and then loaded from a longer series
C20_Witness ==
    /\ bt.state = "loaded"
    /\ \E key \in DOMAIN bt.frames :
          /\ bt.reads[key] = 2
          /\ Len(bt.frames[key]) = LimitsOf(bt)[key]
          /\ Cardinality(_base_filter(store, bt.symbol, key)) > Len(bt.frames[key])
    /\ \E key \in DOMAIN bt.frames : bt.reads[key] = 1

InvalidParameterErrors ==
    {"Backtest lookahead must be positive",
     "Take-profit percentage must be positive",
     "Trailing-stop percentage must be positive",
     "Backtest limit must be positive"}

InvalidArguments(b) ==
    \/ b.lookahead <= 0
    \/ b.take_profit_pct <= 0
    \/ b.trailing_stop_pct <= 0
    \/ b.limit <= 0

\* C21: parameter validation before I/O.  A run called with lookahead,
\* take-profit, trailing-stop or limit not positive raises the
\* invalid-parameter error with no store read, no backfill (hence no feed
\* call) and no strategy evaluation; the store is unchanged.
C21_ValidationBeforeIO ==
    /\ []((bt.state \notin {"none", "new", "ready"} /\ InvalidArguments(bt)
                /\ base_timeframe \in DOMAIN TimeframesOf(bt)) =>
            /\ bt.state = "raised"
            /\ bt.error \in InvalidParameterErrors
            /\ bt.reads = << >>
            /\ bt.syncs = << >>
            /\ bt.frames = << >>
            /\ bt.evaluated = 0
            /\ bt.trades = << >>
            /\ store = bt.store0)
    /\ []((bt.state = "raised" /\ bt.error \in InvalidParameterErrors) =>
            InvalidArguments(bt))
    /\ [][(bt.state = "ready" /\ InvalidArguments(bt)) =>
            (store' = store /\ bt'.state = "raised")]_vars

\* a run refused for its limit over a store that holds bars of the symbol
C21_Witness ==
    /\ bt.state = "raised"
    /\ bt.error = "Backtest limit must be positive"
    /\ bt.limit <= 0
    /\ _base_filter(store, bt.symbol, base_timeframe) # {}

\* the bars of a loaded cadence that opened at or before base index idx
PrefixBars(b, key, idx) ==
    {i \in DOMAIN b.frames[key] :
        b.frames[key][i].open_time <= b.frames[base_timeframe][idx + 1].open_time}

InsufficientContext(b, idx) ==
    \E key \in DOMAIN b.frames :
        Cardinality(PrefixBars(b, key, idx)) < Max2(2, TimeframesOf(b)[key].lookback)

\* C22: context-insufficiency skip.  At a base index where the prefix of
\* some cadence has fewer than max(2, lookback) bars the strategy is not
\* evaluated, no trade is appended, no error is raised and the loop goes
\* on with the next index.
C22_InsufficiencySkip ==
    /\ [][(bt.state = "replay" /\ bt.idx <= LastIndex(bt)
                /\ InsufficientContext(bt, bt.idx)) =>
             /\ bt'.evaluated = bt.evaluated
             /\ bt'.trades = bt.trades
             /\ bt'.state = "replay"
             /\ bt'.error = None
             /\ bt'.idx = bt.idx + 1
             /\ bt'.skipped = bt.skipped \cup {bt.idx}]_vars
    /\ [](bt.state \in {"replay", "done"} =>
             /\ \A j \in DOMAIN bt.trades :
                   ~ InsufficientContext(bt, bt.trades[j].index)
             /\ \A i \in bt.skipped : InsufficientContext(bt, i)
             /\ bt.evaluated + Cardinality(bt.skipped) = bt.idx - bt.warmup_bars)

\* a run of a strategy that always triggers ends with every index skipped
C22_Witness ==
    /\ bt.state = "done"
    /\ bt.strategy = "always"
    /\ Cardinality(bt.skipped) >= 2
    /\ bt.trades = << >>
    /\ bt.evaluated = 0

\* the returns of the trades of a run, in the order of the list
ReturnsOf(b) == [j \in DOMAIN b.trades |-> b.trades[j].return_pct]

\* the sum and the product of (1 + return) of the trades from position j on
RECURSIVE TotalFrom(_, _)
TotalFrom(returns, j) ==
    IF j > Len(returns) THEN <<0, 1>>
    ELSE RatAdd(returns[j], TotalFrom(returns, j + 1))

RECURSIVE ProductFrom(_, _)
ProductFrom(returns, j) ==
    IF j > Len(returns) THEN <<1, 1>>
    ELSE RatMul(<<returns[j][2] + returns[j][1], returns[j][2]>>,
                ProductFrom(returns, j + 1))

\* C23: aggregation.  For a non-empty trade list win_rate is the number of
\* trades with a return strictly above 0 over the number of trades,
\* average_return is the mean of the returns, cumulative_return is the
\* product of (1 + return) over the trades, which are in chronological
\* order of their signals, and it is reported minus 1.
C23_Aggregation ==
    (bt.state \in {"done", "reported"} /\ bt.trades # << >>) =>
        LET returns == ReturnsOf(bt)
            n == Len(returns)
        IN /\ RatEq(bt.win_rate,
                    <<Cardinality({j \in 1..n : returns[j][1] * returns[j][2] > 0}), n>>)
           /\ RatEq(RatMul(bt.average_return, <<n, 1>>), TotalFrom(returns, 1))
           /\ RatEq(bt.cumulative_return, ProductFrom(returns, 1))
           /\ \A i \in 1..n : \A j \in 1..n :
                 i < j => bt.trades[i].timestamp < bt.trades[j].timestamp
           /\ bt.state = "reported" =>
                 /\ bt.report.trades = n
                 /\ RatEq(bt.report.win_rate, bt.win_rate)
                 /\ RatEq(bt.report.avg_return, RatMul(bt.average_return, <<100, 1>>))
                 /\ RatEq(bt.report.cumulative,
                          <<(bt.cumulative_return[1] - bt.cumulative_return[2]) * 100,
                            bt.cumulative_return[2]>>)

\* a reported run with a gain, a flat trade and nothing else
C23_Witness ==
    /\ bt.state = "reported"
    /\ Len(bt.trades) >= 2
    /\ \E j \in DOMAIN bt.trades : bt.trades[j].return_pct[1] = 0
    /\ \E j \in DOMAIN bt.trades : bt.trades[j].return_pct[1] > 0
    /\ bt.win_rate[1] < bt.win_rate[2]
    /\ bt.cumulative_return[1] > bt.cumulative_return[2]

\* C24 as stated: a run without a trade returns a summary with win_rate 0,
\* average_return 0 and cumulative_return 0.
C24_EmptyAggregationAsStated ==
    (bt.state \in {"done", "reported"} /\ bt.trades = << >>) =>
        /\ bt.win_rate[1] = 0
        /\ bt.average_return[1] = 0
        /\ bt.cumulative_return[1] = 0

\* C24: empty aggregation.  A run without a trade returns a summary with
\* win_rate 0, average_return 0 and cumulative_return 1, the empty
\* product; the cumulative return reported for it is 0.
C24_EmptyAggregation ==
    (bt.state \in {"done", "reported"} /\ bt.trades = << >>) =>
        /\ bt.win_rate[1] = 0
        /\ bt.average_return[1] = 0
        /\ RatEq(bt.cumulative_return, <<1, 1>>)
        /\ bt.state = "reported" =>
              /\ bt.report.trades = 0
              /\ bt.report.win_rate[1] = 0
              /\ bt.report.avg_return[1] = 0
              /\ bt.report.cumulative[1] = 0

\* a reported run whose strategy was evaluated and never triggered
C24_Witness ==
    /\ bt.state = "reported"
    /\ bt.trades = << >>
    /\ bt.evaluated >= 2

\* C25: fetch limits.  The base cadence gets base_limit, every other
\* cadence max(lookback, max(2, ceil(base_limit * M_base / M))), M the
\* length of a bar in minutes, so that its limit is at least its lookback
\* and its bars span at least the time of the base window; a base_limit
\* that is not positive raises invalid-parameter.
C25_FetchLimits ==
    /\ (bt.state \notin {"none", "new", "ready"} /\ ~ InvalidArguments(bt)
            /\ base_timeframe \in DOMAIN TimeframesOf(bt)) =>
          \A key \in DOMAIN TimeframesOf(bt) :
             LET tf == TimeframesOf(bt)[key]
                 M == IntervalMinutes(tf.interval)
                 M_base == IntervalMinutes(TimeframesOf(bt)[base_timeframe].interval)
                 limit_c == bt.timeframe_limits[key]
             IN IF key = base_timeframe
                THEN limit_c = bt.limit
                ELSE /\ limit_c = Max2(tf.lookback,
                                       Max2(2, CeilDiv(bt.limit * M_base, M)))
                     /\ limit_c >= tf.lookback
                     /\ limit_c * M >= bt.limit * M_base
    /\ (bt.state \notin {"none", "new", "ready"} /\ bt.limit <= 0) =>
          /\ bt.state = "raised"
          /\ bt.error \in InvalidParameterErrors

\* C26: missing base cadence.  Constructing the engine over a configuration
\* whose resolved cadences do not include 1h raises the missing-base
\* error at construction: no warmup is computed, nothing is read from the
\* store, no backfill is attempted and run never starts.
C26_MissingBaseCadence ==
    /\ []((bt.state \notin {"none", "new"}
                /\ base_timeframe \notin DOMAIN TimeframesOf(bt)) =>
             /\ bt.state = "raised"
             /\ bt.error = "Backtest requires 1h timeframe in settings"
             /\ bt.warmup_bars = None
             /\ bt.k = 0
             /\ bt.reads = << >>
             /\ bt.syncs = << >>
             /\ bt.evaluated = 0
             /\ store = bt.store0)
    /\ []((bt.state = "raised"
                /\ bt.error = "Backtest requires 1h timeframe in settings") =>
             base_timeframe \notin DOMAIN TimeframesOf(bt))
    /\ [][(bt.state = "new" /\ base_timeframe \notin DOMAIN TimeframesOf(bt)) =>
             (store' = store /\ bt'.state = "raised")]_vars

\* a construction refused over a store that holds bars of the cadences
C26_Witness ==
    /\ bt.state = "raised"
    /\ bt.error = "Backtest requires 1h timeframe in settings"
    /\ Cardinality(DOMAIN TimeframesOf(bt)) = 2
    /\ store # {}

\* C27: cadence resolution.  timeframe_metadata has one entry per distinct
\* lowercased requested name; a name whose lowercase form is a default gets
\* the metadata of that default, any other name gets synthesized metadata
\* with lookback 200 and refresh 60 minutes; every entry has
\* refresh_minutes >= 1.
C27_CadenceResolution ==
    bt.state \notin {"none", "new"} =>
        LET requested == bt.settings_timeframes
            names == {Lower(requested[n]) : n \in DOMAIN requested}
        IN /\ DOMAIN bt.timeframes = names
           /\ Cardinality(DOMAIN bt.timeframes) <= Len(requested)
           /\ \A key \in names :
                 /\ key \in DOMAIN DEFAULT_TIMEFRAMES =>
                       bt.timeframes[key] = DEFAULT_TIMEFRAMES[key]
                 /\ key \notin DOMAIN DEFAULT_TIMEFRAMES =>
                       bt.timeframes[key]
                          = [name |-> key, interval |-> key,
                             lookback |-> 200, refresh_minutes |-> 60]
                 /\ bt.timeframes[key].refresh_minutes >= 1

\* a name asked for twice in different case, next to an unknown name
C27_Witness ==
    /\ bt.state = "raised"
    /\ Cardinality(DOMAIN bt.timeframes) < Len(bt.settings_timeframes)
    /\ \E key \in DOMAIN bt.timeframes : key \notin DOMAIN DEFAULT_TIMEFRAMES
    /\ \E key \in DOMAIN bt.timeframes : key \in DOMAIN DEFAULT_TIMEFRAMES

(***************************************************************************)
(* core/candles/repository.py and core/models.py: the candles table with   *)
(* every column of a row.  close stands for the required value columns     *)
(* (close_time, open, high, low, close, volume), number_of_trades for the  *)
(* four optional ones; created_at and updated_at are the two columns the   *)
(* server fills with now().                                                *)
(***************************************************************************)
MaxClock == 2

repository_exchange == "binance"

\* models.Candle: the primary key columns
PrimaryKey == {"exchange", "symbol", "timeframe", "open_time"}

\* models.Candle: Candle.__table__.columns
CandleColumns ==
    PrimaryKey \cup {"close", "number_of_trades", "created_at", "updated_at"}

\* upsert_frame: the dictionary built for one record of the frame
RecordOf(symbol, timeframe, record) ==
    [exchange |-> repository_exchange,
     symbol |-> Upper(symbol),
     timeframe |-> Lower(timeframe),
     open_time |-> record.open_time,
     close |-> record.close,
     number_of_trades |-> IF record.number_of_trades # None
                          THEN record.number_of_trades ELSE None]

\* the row the INSERT proposes (EXCLUDED): the record and the server defaults
Excluded(rec, clock) ==
    [c \in CandleColumns |->
        IF c \in {"created_at", "updated_at"} THEN clock ELSE rec[c]]

SamePrimaryKey(r, q) == \A c \in PrimaryKey : r[c] = q[c]

\* upsert_frame: update_columns, every column that is not in the primary key
update_columns == {c \in CandleColumns : c \notin PrimaryKey}

\* ON CONFLICT DO UPDATE SET update_columns = excluded
OnConflictUpdate(row, excluded) ==
    [c \in CandleColumns |-> IF c \in update_columns THEN excluded[c] ELSE row[c]]

\* CandleRepository.upsert_frame on the table with all its columns
upsert_frame_columns(rows, symbol, timeframe, frame, clock) ==
    LET proposed == {Excluded(RecordOf(symbol, timeframe, record), clock) :
                        record \in frame}
    IN {r \in rows : ~ \E q \in proposed : SamePrimaryKey(r, q)}
         \cup {q \in proposed : ~ \E r \in rows : SamePrimaryKey(r, q)}
         \cup {OnConflictUpdate(r, q) : <<r, q>> \in
                  {pr \in rows \X proposed : SamePrimaryKey(pr[1], pr[2])}}

\* the frames of the batches: at most one record for an open time
UpsertOpenTimes == {0, 60}
UpsertRecords ==
    [open_time : UpsertOpenTimes, close : {1, 2}, number_of_trades : {None, 7}]
UpsertFrames ==
    {f \in SUBSET UpsertRecords :
        \A a \in f : \A b \in f : a.open_time = b.open_time => a = b}
UpsertTimeframes == {"1h", "1H"}

NoBatch == [frame |-> {}, timeframe |-> "1h"]

InitUpsert ==
    /\ now = InitNow
    /\ overlap = 0
    /\ store = {}
    /\ pc = [p \in Procs |-> "idle"]
    /\ job = [p \in Procs |-> NoJob]
    /\ call = [p \in Procs |-> NoCall]
    /\ outcome = [p \in Procs |-> NoOutcome]
    /\ hist = [p \in Procs |-> NoHist]
    /\ jobs_started = 0
    /\ failures = 0
    /\ trade = NoTrade
    /\ bt = NoRun
    /\ candles = [state |-> "table", rows |-> {}, clock |-> 0,
                  batch |-> NoBatch, times |-> 0, once |-> {},
                  result |-> 0]
    /\ scheduler = NoScheduler
    /\ market = NoFetch

upsert_others == <<now, overlap, store, pc, job, call, outcome, hist, jobs_started,
                   failures, trade, bt, scheduler, market>>

\* one call of upsert_frame, whose statement runs at the time of the clock
UpsertFrame ==
    /\ candles.state = "table"
    /\ \E timeframe \in UpsertTimeframes : \E frame \in UpsertFrames :
         LET batch == [frame |-> frame, timeframe |-> timeframe]
             again == candles.times >= 1 /\ batch = candles.batch
             rows == IF frame = {} THEN candles.rows
                     ELSE upsert_frame_columns(candles.rows, BacktestSymbol,
                                               timeframe, frame, candles.clock)
         IN candles' = [candles EXCEPT
                           !.rows = rows,
                           !.batch = batch,
                           !.times = IF again THEN Min2(candles.times + 1, 2) ELSE 1,
                           !.once = IF again THEN candles.once ELSE rows,
                           !.result = IF frame = {} THEN 0 ELSE Cardinality(frame)]
    /\ UNCHANGED upsert_others

\* time passes between two statements
Elapse ==
    /\ candles.state = "table"
    /\ candles.clock < MaxClock
    /\ candles' = [candles EXCEPT !.clock = candles.clock + 1]
    /\ UNCHANGED upsert_others

NextUpsert == UpsertFrame \/ Elapse

SpecUpsert == InitUpsert /\ [][NextUpsert]_vars

\* the rows without the two columns the server fills
CandleValues(rows) ==
    {[c \in CandleColumns \ {"created_at", "updated_at"} |-> r[c]] : r \in rows}

\* the stored row of the record of a batch
StoredFor(batch, record) ==
    {r \in candles.rows :
        SamePrimaryKey(r, Excluded(RecordOf(BacktestSymbol, batch.timeframe, record), 0))}

(***************************************************************************)
(* C28  Upsert overwrite and idempotence: after upsert_frame every record  *)
(* of the batch is stored under its key with the batch's values, a null    *)
(* optional value included, and after the same batch was applied again     *)
(* the table is exactly what it was after the first application.           *)
(***************************************************************************)
C28_UpsertIdempotence ==
    (candles.state = "table" /\ candles.times >= 1) =>
        /\ \A record \in candles.batch.frame :
              /\ Cardinality(StoredFor(candles.batch, record)) = 1
              /\ \A r \in StoredFor(candles.batch, record) :
                    /\ r.close = record.close
                    /\ r.number_of_trades = record.number_of_trades
        /\ candles.times >= 2 => candles.rows = candles.once

(***************************************************************************)
(* CandleSynchronizer.schedule_periodic_updates (sync.py:118-140) and the  *)
(* loop that runs the pending jobs (main.py:73).  The scheduler keeps the  *)
(* jobs in the order of their registration; a job is pending when its     *)
(* next run is not after the clock.                                        *)
(***************************************************************************)
\* the timeframes argument; << >> stands for timeframes=None, "1h" is not
\* a configured timeframe
ScheduleTimeframes == {<< >>, <<"5m">>, <<"3m", "5m">>, <<"5m", "1h">>}

\* scheduler.every(minutes).minutes, or scheduler.every().day
Every(minutes) ==
    IF minutes # 1440 THEN [interval |-> minutes, unit |-> "minutes"]
    ELSE [interval |-> 1, unit |-> "days"]

\* the period of a job in minutes
PeriodMinutes(j) == j.interval * (IF j.unit = "days" THEN 1440 ELSE 1)

\* a job whose closure reads the loop variable when it runs
NewJobLateBinding(symbols, requested_timeframes, i, clock) ==
    LET minutes == Max2(_timeframe_delta(requested_timeframes[i]), 1)
        every == Every(minutes)
    IN [symbols |-> symbols,
        timeframe |-> requested_timeframes[Len(requested_timeframes)],
        interval |-> every.interval, unit |-> every.unit,
        next_run |-> clock + PeriodMinutes(every), runs |-> 0]

\* lines 132-140: the job registered for the i-th requested timeframe; _job
\* binds symbols and timeframe_key when it is defined
NewJob(symbols, requested_timeframes, i, clock) ==
    LET minutes == Max2(_timeframe_delta(requested_timeframes[i]), 1)
        every == Every(minutes)
    IN [symbols |-> symbols,
        timeframe |-> requested_timeframes[i],
        interval |-> every.interval, unit |-> every.unit,
        next_run |-> clock + PeriodMinutes(every), runs |-> 0]

\* the entries of the requested timeframes before the first unknown one
Known(requested_timeframes) ==
    LET bad == {i \in DOMAIN requested_timeframes :
                    requested_timeframes[i] \notin DOMAIN timeframe_map}
    IN IF bad = {} THEN Len(requested_timeframes)
       ELSE (CHOOSE i \in bad : \A k \in bad : i <= k) - 1

NewScheduler ==
    [state |-> "new", symbols |-> << >>, timeframes |-> << >>, jobs |-> << >>,
     running |-> 0, fired_at |-> None, error |-> ""]

\* the stored series when the scheduler starts: one pair has a bar
ScheduleStore == {Row("BTCUSDT", "5m", FeedBar("5m", 0, InitNow))}

InitSchedule ==
    /\ now = InitNow
    /\ overlap = 0
    /\ store = ScheduleStore
    /\ pc = [p \in Procs |-> "idle"]
    /\ job = [p \in Procs |-> NoJob]
    /\ call = [p \in Procs |-> NoCall]
    /\ outcome = [p \in Procs |-> NoOutcome]
    /\ hist = [p \in Procs |-> NoHist]
    /\ jobs_started = 0
    /\ failures = 0
    /\ trade = NoTrade
    /\ bt = NoRun
    /\ candles = NoTable
    /\ scheduler = NewScheduler
    /\ market = NoFetch

schedule_periodic_updates(symbols, timeframes) ==
    /\ scheduler.state = "new"
    /\ LET requested_timeframes ==
               IF timeframes # << >> THEN timeframes ELSE timeframe_keys
           known == Known(requested_timeframes)
       IN scheduler' = [scheduler EXCEPT
              !.state = IF known = Len(requested_timeframes)
                        THEN "scheduled" ELSE "raised",
              !.error = IF known = Len(requested_timeframes) THEN "" ELSE "KeyError",
              !.symbols = symbols,
              !.timeframes = timeframes,
              !.jobs = [i \in 1..known |->
                           NewJob(symbols, requested_timeframes, i, now)]]
    /\ UNCHANGED sync_vars
    /\ UNCHANGED <<trade, bt, candles, market>>

\* the clock reaches the next run of a job
TimePasses ==
    /\ scheduler.state = "scheduled"
    /\ jobs_started < MaxJobs
    /\ \E i \in DOMAIN scheduler.jobs :
         /\ scheduler.jobs[i].next_run > now
         /\ now' = scheduler.jobs[i].next_run
    /\ hist' = [p \in Procs |-> NoHist]
    /\ UNCHANGED backtest_vars
    /\ UNCHANGED <<overlap, store, pc, job, call, outcome, jobs_started, failures>>

\* schedule.run_pending: a pending job runs, _job calls sync_symbols
RunPending(i) ==
    /\ scheduler.state = "scheduled"
    /\ i \in DOMAIN scheduler.jobs
    /\ scheduler.jobs[i].next_run <= now
    /\ LET j == scheduler.jobs[i]
       IN /\ sync_symbols("daemon", j.symbols, <<j.timeframe>>, None, None)
          /\ scheduler' = [scheduler EXCEPT
                 !.running = i,
                 !.fired_at = now,
                 !.jobs[i].next_run = now + PeriodMinutes(j),
                 !.jobs[i].runs = j.runs + 1]
    /\ UNCHANGED <<trade, bt, candles, market>>

NextSchedule ==
    \/ \E symbols \in SymbolLists, timeframes \in ScheduleTimeframes :
          schedule_periodic_updates(symbols, timeframes)
    \/ TimePasses
    \/ \E i \in 1..Len(timeframe_keys) : RunPending(i)
    \/ sync_symbol_timeframe("daemon")
    \/ LoopExit("daemon")
    \/ FetchPage("daemon")
    \/ FetchFails("daemon")
    \/ UpsertPage("daemon")
    \/ Return("daemon")
    \/ Propagate("daemon")

SpecSchedule == InitSchedule /\ [][NextSchedule]_vars

\* the timeframes the registration is for
Requested ==
    IF scheduler.timeframes # << >> THEN scheduler.timeframes ELSE timeframe_keys

(***************************************************************************)
(* C29  Periodic scheduling: after schedule_periodic_updates there is one  *)
(* job for every requested timeframe (every configured one when none was   *)
(* requested) whose period is the refresh_minutes of that timeframe; the   *)
(* job that runs calls sync_symbols with the given symbols, that one       *)
(* timeframe, no start time and no end time, so that the upper bound of    *)
(* each of its calls is the clock at the call.                             *)
(***************************************************************************)
C29_PeriodicScheduling ==
    scheduler.state = "scheduled" =>
        /\ Len(scheduler.jobs) = Len(Requested)
        /\ \A i \in DOMAIN scheduler.jobs :
              /\ scheduler.jobs[i].timeframe = Requested[i]
              /\ scheduler.jobs[i].symbols = scheduler.symbols
              /\ PeriodMinutes(scheduler.jobs[i])
                    = timeframe_map[Requested[i]].refresh_minutes
        /\ \A k \in {Requested[i] : i \in DOMAIN Requested} :
              Cardinality({i \in DOMAIN scheduler.jobs :
                              scheduler.jobs[i].timeframe = k}) = 1
        /\ job["daemon"].kind = "sync_symbols" =>
              /\ job["daemon"].symbols = scheduler.symbols
              /\ job["daemon"].requested_timeframes
                    = <<Requested[scheduler.running]>>
              /\ job["daemon"].start_time = None
              /\ job["daemon"].end_time = None
              /\ call["daemon"].upper_bound # None =>
                    /\ call["daemon"].upper_bound = call["daemon"].clock0
                    /\ call["daemon"].clock0 >= scheduler.fired_at

\* the second of two registered jobs runs and its call has an upper bound
C29_Witness ==
    /\ scheduler.state = "scheduled"
    /\ Len(scheduler.jobs) = 2
    /\ scheduler.running = 2
    /\ scheduler.timeframes # << >>
    /\ job["daemon"].kind = "sync_symbols"
    /\ call["daemon"].upper_bound # None
    /\ scheduler.fired_at > InitNow

\* the stats of the call p returns from, as the caller holds them after the step
ReturnedStat(p) ==
    IF pc'[p] = "idle" THEN outcome'[p].stats[Len(outcome'[p].stats)]
    ELSE job'[p].stats[Len(job'[p].stats)]

(***************************************************************************)
(* C30  Returned count: inserted starts at 0, grows at every upsert of a   *)
(* page by the number of bars of the filtered page and changes nowhere     *)
(* else, and is what sync_symbol_timeframe returns; when no other process  *)
(* wrote the pair during the call it is the number of rows by which the    *)
(* pair's stored series grew.                                              *)
(***************************************************************************)
C30_ReturnedCount ==
    /\ [][\A p \in Procs :
            /\ (pc[p] = "call" /\ pc'[p] # "call") => call'[p].inserted = 0
            /\ (pc[p] = "upsert" /\ pc'[p] # "upsert") =>
                  call'[p].inserted = call[p].inserted + Cardinality(call[p].frame)
            /\ (pc[p] = "loop" /\ pc'[p] \in {"loop", "upsert", "returned"}) =>
                  call'[p].inserted = call[p].inserted
            /\ (pc[p] = "returned" /\ pc'[p] # "returned") =>
                  ReturnedStat(p).inserted = call[p].inserted]_vars
    /\ [](\A p \in Procs :
            (pc[p] = "returned" /\ call[p].alone) =>
                call[p].inserted
                    = Cardinality(PairRows(p)) - Cardinality(call[p].base))

\* a call returns after it wrote two pages, more bars than one page holds
C30_Witness ==
    \E p \in Procs :
        /\ pc[p] = "returned"
        /\ call[p].alone
        /\ call[p].fetches >= 2
        /\ call[p].inserted > PageLimit

(***************************************************************************)
(* C31  Freshness of stored bars: when sync_symbol_timeframe returns       *)
(* without error, with the feed unchanged since the call began and no      *)
(* other process writing the pair, every stored row of the pair has the    *)
(* values the feed has for its open time now, the bar that was still       *)
(* forming at the previous call included.                                  *)
(***************************************************************************)
C31_Freshness ==
    \A p \in Procs :
        (pc[p] = "returned" /\ Undisturbed(p)) =>
            \A r \in PairRows(p) :
                r.val = FeedValue(timeframe_map[call[p].timeframe_key].interval,
                                  r.open_time, now)

(***************************************************************************)
(* Termination of the page loop.  The calls are scheduled fairly: a call   *)
(* that can take a step takes one, and the feed answers every request      *)
(* (with a page or with an error).                                         *)
(***************************************************************************)
SyncStep(p) ==
    \/ sync_symbol_timeframe(p)
    \/ LoopExit(p)
    \/ FetchPage(p)
    \/ FetchFails(p)
    \/ UpsertPage(p)
    \/ Return(p)
    \/ Propagate(p)

\* one process calls sync_symbol_timeframe, again and again, while time passes
NextTerminating ==
    \/ Tick
    \/ \E symbol \in SymbolArgs, timeframe_key \in TimeframeArgs, w \in Windows :
            CallSyncSymbolTimeframe("fetcher", symbol, timeframe_key, w[1], w[2])
    \/ sync_symbol_timeframe("fetcher")
    \/ LoopExit("fetcher")
    \/ FetchPage("fetcher")
    \/ FetchFails("fetcher")
    \/ UpsertPage("fetcher")
    \/ Return("fetcher")
    \/ Propagate("fetcher")

SpecTerminating ==
    Init /\ [][NextTerminating]_vars /\ WF_vars(SyncStep("fetcher"))

(***************************************************************************)
(* C32  Termination of sync_one: an iteration of the page loop that does   *)
(* not stop the loop moves fetch_start to at least one minute past the     *)
(* greatest open time of its batch, which is at or after the old           *)
(* fetch_start; the upper bound is fixed during the call; the feed calls   *)
(* of a call are at most one more than the steps of cadence_delta between  *)
(* the first fetch_start and the upper bound; and a call that has entered  *)
(* the loop returns or raises.                                             *)
(***************************************************************************)
C32_Termination ==
    /\ [][\A p \in Procs :
            /\ (pc[p] = "upsert" /\ pc'[p] # "upsert") =>
                  /\ \A b \in call[p].frame :
                        /\ b.open_time >= call[p].fetch_start
                        /\ call'[p].fetch_start >= b.open_time + 1
                  /\ call'[p].fetch_start > call[p].fetch_start
            /\ (pc[p] \in {"loop", "upsert"} /\ pc'[p] \in {"loop", "upsert", "returned"}) =>
                  call'[p].upper_bound = call[p].upper_bound]_vars
    /\ [](\A p \in Procs :
            (pc[p] \in {"loop", "upsert", "returned"} /\ call[p].fetches > 0) =>
                (call[p].fetches - 1) * _timeframe_delta(call[p].timeframe_key)
                    <= call[p].upper_bound - FirstStart(p))
    /\ \A p \in Procs :
            (pc[p] \in {"loop", "upsert"}) ~> (pc[p] \in {"returned", "raised"})

\* a call is in its second iteration of the page loop
C32_Witness ==
    \E p \in Procs :
        /\ pc[p] = "upsert"
        /\ call[p].fetches >= 2
        /\ call[p].inserted > 0

(***************************************************************************)
(* C33  Frame of sync_one: a call on a pair whose latest stored open time  *)
(* is L, with no other process writing the pair, adds only rows of its     *)
(* pair with open time >= L + cadence_delta and changes or removes no row  *)
(* that was stored, of its pair or of any other, whatever requested start  *)
(* it was given; so no bar before the earliest stored one is added.        *)
(***************************************************************************)
C33_Frame ==
    /\ [][\A p \in Procs :
            (pc[p] = "upsert" /\ pc'[p] # "upsert" /\ call[p].alone
                /\ call[p].base # {}) =>
                /\ store \subseteq store'
                /\ \A r \in store' \ store :
                      /\ SamePair(r.symbol, r.timeframe,
                                  call[p].symbol, call[p].timeframe_key)
                      /\ r.open_time >= LatestOf(call[p].base)
                                          + _timeframe_delta(call[p].timeframe_key)]_vars
    /\ [](\A p \in Procs :
            (pc[p] \in {"loop", "upsert", "returned", "raised"} /\ call[p].alone
                /\ call[p].base # {} /\ call[p].error # "KeyError") =>
                /\ call[p].base \subseteq PairRows(p)
                /\ \A r \in PairRows(p) \ call[p].base :
                      /\ r.open_time >= LatestOf(call[p].base)
                                          + _timeframe_delta(call[p].timeframe_key)
                      /\ \A q \in call[p].base : r.open_time > q.open_time)

\* a call given a start before the latest stored bar has written new bars
C33_Witness ==
    \E p \in Procs :
        /\ pc[p] = "returned"
        /\ call[p].alone
        /\ call[p].base # {}
        /\ call[p].inserted > 0
        /\ job[p].start_time # None
        /\ job[p].start_time < LatestOf(call[p].base)

(***************************************************************************)
(* C35  Bounded trade return: with every bar of the window satisfying      *)
(* low <= close <= high and a positive entry price, the return of a        *)
(* recorded trade is p for a take-profit exit, at least -s and below p for *)
(* a trailing-stop exit, and strictly between -s and p for a timeout,      *)
(* where p and s are the take-profit and trailing-stop percentages.        *)
(***************************************************************************)
C35_BoundedReturn ==
    trade.state = "recorded" =>
        LET num == 100 * trade.return_pct[1]
            den == trade.return_pct[2]
            p == trade.take_profit_pct
            s == trade.trailing_stop_pct
        IN /\ den > 0
           /\ den = trade.entry_price
           /\ 0 - s * den <= num /\ num <= p * den
           /\ trade.exit_reason = "take_profit" => num = p * den
           /\ trade.exit_reason = "trailing_stop" => num < p * den
           /\ trade.exit_reason = "lookahead_exit" =>
                 (0 - s * den < num /\ num < p * den)

\* a trade stopped at a stop that had been ratcheted, on the last offset
C35_Witness ==
    /\ trade.state = "recorded"
    /\ trade.exit_reason = "trailing_stop"
    /\ trade.exit_price > InitialStop(trade.entry_price, trade.trailing_stop_pct)
    /\ trade.exit_offset = trade.lookahead
    /\ trade.lookahead > 1

(***************************************************************************)
(* C36  Fill realism: the exit price of every trade lies within the        *)
(* [low, high] range of the bar on which the trade exits.                  *)
(***************************************************************************)
C36_FillRealism ==
    trade.state \in {"exited", "recorded"} =>
        LET candle == trade.window[1 + trade.exit_offset]
        IN candle.low <= trade.exit_price /\ trade.exit_price <= candle.high


EvaluableIndices(b) ==
    {i \in b.warmup_bars..(b.idx - 1) : ~ InsufficientContext(b, i)}

\* the bars of a loaded cadence that opened at or before base index idx, in
\* the order of the loaded frame
LoadedUpTo(b, key, idx) ==
    LET frame == b.frames[key]
        count == Cardinality(PrefixBars(b, key, idx))
    IN [n \in 1..count |-> frame[n]]

\* C38: evaluation discipline.  During run the evaluator is called exactly
\* once for each base index in [warmup, length - N - 1] that is not skipped
\* and for no other index; each call receives, for every configured
\* cadence, exactly the loaded bars with open-time <= the open-time of the
\* current base bar; a trade is appended if and only if the call reported
\* triggered.
C38_EvaluationDiscipline ==
    bt.state \in {"replay", "done"} =>
        /\ Len(bt.calls) = bt.evaluated
        /\ \A j, k \in DOMAIN bt.calls :
              j < k => bt.calls[j].index < bt.calls[k].index
        /\ {bt.calls[j].index : j \in DOMAIN bt.calls} = EvaluableIndices(bt)
        /\ EvaluableIndices(bt) \subseteq bt.warmup_bars..LastIndex(bt)
        /\ bt.state = "done" => bt.idx = LastIndex(bt) + 1
        /\ bt.calls # << >> =>
              LET idx == bt.calls[Len(bt.calls)].index
              IN /\ DOMAIN bt.context_frames = DOMAIN bt.timeframes
                 /\ \A key \in DOMAIN bt.timeframes :
                       /\ bt.context_frames[key] = LoadedUpTo(bt, key, idx)
                       /\ \A n \in DOMAIN bt.frames[key] :
                             n > Len(bt.context_frames[key]) =>
                                bt.frames[key][n].open_time
                                   > bt.frames[base_timeframe][idx + 1].open_time
        /\ Len(bt.trades) = Cardinality({j \in DOMAIN bt.calls : bt.calls[j].triggered})
        /\ \A j \in DOMAIN bt.calls :
              bt.calls[j].triggered <=>
                 \E n \in DOMAIN bt.trades : bt.trades[n].index = bt.calls[j].index

\* a finished run over two cadences with a call that triggered and a call
\* that did not, whose last context holds fewer bars of the higher cadence
\* than were loaded
C38_Witness ==
    /\ bt.state = "done"
    /\ Cardinality(DOMAIN bt.timeframes) >= 2
    /\ \E j, k \in DOMAIN bt.calls :
          bt.calls[j].triggered /\ ~ bt.calls[k].triggered
    /\ \E key \in DOMAIN bt.timeframes :
          /\ key # base_timeframe
          /\ Len(bt.context_frames[key]) < Len(bt.frames[key])
    /\ Len(bt.context_frames[base_timeframe]) < Len(bt.frames[base_timeframe])


\* the minute a bar of a cadence closes
close_time(b, key, bar) ==
    bar.open_time + IntervalMinutes(b.timeframes[key].interval)

\* C39: no look-ahead in the context.  At every replay step every bar of
\* the context handed to the evaluator has a close-time <= the close-time
\* of the current base bar.
C39_NoLookAhead ==
    (bt.state \in {"replay", "done"} /\ bt.calls # << >>) =>
        LET idx == bt.calls[Len(bt.calls)].index
            base_candle == bt.frames[base_timeframe][idx + 1]
        IN \A key \in DOMAIN bt.context_frames :
              \A n \in DOMAIN bt.context_frames[key] :
                 close_time(bt, key, bt.context_frames[key][n])
                    <= close_time(bt, base_timeframe, base_candle)


(***************************************************************************)
(* core/data_fetcher.py: MarketDataFetcher.fetch_symbol over a store that  *)
(* holds, for each configured cadence, a gap-free stretch of the feed's    *)
(* bars.  The synchronizer is the uninterrupted sync_symbol_timeframe      *)
(* built from the same settings; its feed call may fail once.              *)
(***************************************************************************)
\* Settings.timeframes of the fetcher
FetchSettings == BacktestSettings \cup BaselessSettings

\* what the store holds of each cadence when fetch_symbol is called
FetchScenarios(settings) ==
    {"enough", "lagging", "short", "stale_base", "lagging_base"}
        \cup (IF "3m" \in DOMAIN timeframe_metadata(settings)
              THEN {} ELSE {"empty"})
        \cup (IF "1d" \in DOMAIN timeframe_metadata(settings)
              THEN {"lagging_daily"} ELSE {})

FetchShapeOf(scenario, key) ==
    IF scenario = "lagging_daily"
    THEN (IF key = "1d" THEN "lagging" ELSE "enough")
    ELSE ShapeOf(scenario, key)

\* a read of one bar less than the lookback needs
requiredOfLookback(metadata) == metadata.lookback + 1

\* line 41: required = lookbacks[tf_key] + 2
required(metadata) == metadata.lookback + 2

FetchStore(settings, scenario, clock) ==
    LET timeframes == timeframe_metadata(settings)
    IN UNION {{Row(BacktestSymbol, key,
                   FeedBar(timeframes[key].interval, t, clock)) :
                  t \in SeriesOf(timeframes[key], FetchShapeOf(scenario, key),
                                 required(timeframes[key]), clock)} :
              key \in DOMAIN timeframes}

\* MarketDataFetcher.__init__, lines 22-31, and the call of fetch_symbol
MarketDataFetcher(settings, synchronizer) ==
    [state |-> "fetching",
     settings_timeframes |-> settings,
     timeframes |-> timeframe_metadata(settings),
     synchronizer |-> synchronizer,
     symbol |-> BacktestSymbol,
     k |-> 1,
     candles |-> << >>,
     first_len |-> << >>,
     reads |-> << >>,
     syncs |-> << >>,
     error |-> None]

InitFetch ==
    /\ now = BacktestNow
    /\ overlap = 0
    /\ pc = [p \in Procs |-> "idle"]
    /\ job = [p \in Procs |-> NoJob]
    /\ call = [p \in Procs |-> NoCall]
    /\ outcome = [p \in Procs |-> NoOutcome]
    /\ hist = [p \in Procs |-> NoHist]
    /\ jobs_started = 0
    /\ failures = 0
    /\ trade = NoTrade
    /\ bt = NoRun
    /\ candles = NoTable
    /\ scheduler = NoScheduler
    /\ \E settings \in FetchSettings :
       \E scenario \in FetchScenarios(settings) :
       \E synchronizer \in {"CandleSynchronizer", "None"} :
          /\ store = FetchStore(settings, scenario, now)
          /\ market = MarketDataFetcher(settings, synchronizer)

fetch_frame == <<now, overlap, pc, job, call, outcome, hist, jobs_started,
                 trade, bt, candles, scheduler>>

\* line 57: candles[tf_key] = frame, and the loop moves on; line 58 returns
\* after the last cadence
Kept(m, key, frame) ==
    [m EXCEPT !.candles = (key :> frame) @@ m.candles,
              !.k = m.k + 1,
              !.state = IF m.k = Len(KeyOrder(m.settings_timeframes))
                        THEN "returned" ELSE "fetching"]

\* lines 40-43: the first read of a cadence
fetch_symbol_read ==
    /\ market.state = "fetching"
    /\ LET key == KeyOrder(market.settings_timeframes)[market.k]
           metadata == market.timeframes[key]
           frame == get_candles(store, market.symbol, key, required(metadata))
           read == [market EXCEPT !.reads = (key :> 1) @@ market.reads,
                                  !.first_len = (key :> Len(frame)) @@ market.first_len]
       IN market' = IF Len(frame) < required(metadata)
                          /\ market.synchronizer # "None"
                    THEN [read EXCEPT !.state = "synchronizing"]
                    ELSE Kept(read, key, frame)
    /\ UNCHANGED <<store, failures>>
    /\ UNCHANGED fetch_frame

\* lines 51-57: sync_symbol_timeframe returns, the cadence is read again
fetch_symbol_sync ==
    /\ market.state = "synchronizing"
    /\ LET key == KeyOrder(market.settings_timeframes)[market.k]
           metadata == market.timeframes[key]
           synced == RunSyncOf(market.timeframes, store, market.symbol, key,
                               candle_start_date, None, overlap, now)
           frame == get_candles(synced, market.symbol, key, required(metadata))
           read == [market EXCEPT !.reads = (key :> 2) @@ market.reads,
                                  !.syncs = Append(market.syncs, key)]
       IN /\ store' = synced
          /\ market' = Kept(read, key, frame)
    /\ UNCHANGED failures
    /\ UNCHANGED fetch_frame

\* lines 51-55: the first feed call of sync_symbol_timeframe fails with a
\* network/HTTP error, which leaves fetch_symbol uncaught
fetch_symbol_sync_raises ==
    /\ market.state = "synchronizing"
    /\ failures < MaxFailures
    /\ LET key == KeyOrder(market.settings_timeframes)[market.k]
           fetch_start == _next_start(latest_open_time(store, market.symbol, key),
                                      candle_start_date,
                                      timeframe_delta_of(market.timeframes, key))
       IN /\ fetch_start # None
          /\ fetch_start <= UpperBound(None, now)
          /\ market' = [market EXCEPT !.state = "raised",
                                      !.error = "HTTPError",
                                      !.syncs = Append(market.syncs, key)]
    /\ failures' = failures + 1
    /\ UNCHANGED store
    /\ UNCHANGED fetch_frame

NextFetch == fetch_symbol_read \/ fetch_symbol_sync \/ fetch_symbol_sync_raises

SpecFetch == InitFetch /\ [][NextFetch]_vars


\* the cadences fetch_symbol has finished
FetchedKeys(m) ==
    {KeyOrder(m.settings_timeframes)[n] : n \in 1..(m.k - 1)}

\* the calls of sync_symbol_timeframe for a cadence
SyncCalls(m, key) == Cardinality({n \in DOMAIN m.syncs : m.syncs[n] = key})

\* C40 as stated: fetch_symbol never raises and always returns one frame per
\* configured cadence.
C40_AlwaysReturns ==
    market.state # "raised"

\* C40: the live data fetch is lenient.  For every configured cadence
\* fetch_symbol reads lookback + 2 bars, calls sync_symbol_timeframe at
\* most once and only when fewer were returned and a synchronizer is
\* configured, and keeps whatever the second read yields.  It never raises
\* an insufficient-data error: it returns one frame per configured cadence,
\* possibly shorter than lookback + 2, unless the feed's error leaves the
\* call of sync_symbol_timeframe, which fetch_symbol does not catch.
C40_LenientFetch ==
    /\ [][/\ market'.k = market.k + 1 =>
                LET key == KeyOrder(market.settings_timeframes)[market.k]
                IN market'.candles[key] =
                      get_candles(store', market.symbol, key,
                                  market.timeframes[key].lookback + 2)
          /\ store' # store => Len(market'.syncs) = Len(market.syncs) + 1]_vars
    /\ [](market.state # "none" =>
             /\ \A key \in DOMAIN market.timeframes :
                   /\ SyncCalls(market, key) <= 1
                   /\ SyncCalls(market, key) = 1 =>
                         /\ market.first_len[key] < market.timeframes[key].lookback + 2
                         /\ market.synchronizer # "None"
             /\ DOMAIN market.candles = FetchedKeys(market)
             /\ \A key \in DOMAIN market.candles :
                   /\ Len(market.candles[key]) <= market.timeframes[key].lookback + 2
                   /\ market.reads[key] = 1 + SyncCalls(market, key)
             /\ market.state = "returned" <=>
                   DOMAIN market.candles = DOMAIN market.timeframes
             /\ market.state = "raised" =>
                   /\ market.error = "HTTPError"
                   /\ failures > 0
                   /\ market.syncs # << >>
             /\ market.state # "raised" => market.error = None)

\* fetch_symbol has returned a frame per cadence over two cadences: one
\* frame still shorter than lookback + 2 after its synchronization, one
\* that was long enough at the first read
C40_Witness ==
    /\ market.state = "returned"
    /\ Cardinality(DOMAIN market.timeframes) >= 2
    /\ \E key \in DOMAIN market.candles :
          /\ SyncCalls(market, key) = 1
          /\ Len(market.candles[key]) < market.timeframes[key].lookback + 2
          /\ Len(market.candles[key]) > market.first_len[key]
    /\ \E key \in DOMAIN market.candles :
          /\ SyncCalls(market, key) = 0
          /\ Len(market.candles[key]) = market.timeframes[key].lookback + 2

(***************************************************************************)
(* The operations that touch the store, together: the synchronizer's       *)
(* sync_symbols jobs and direct sync calls, or a run of the backtest with  *)
(* its backfill, or a call of fetch_symbol with its synchronization.       *)
(***************************************************************************)
InitStore == Init \/ InitBacktest \/ InitFetch

NextStore ==
    \/ (bt.state = "none" /\ market.state = "none" /\ Next)
    \/ NextBacktest
    \/ NextFetch

SpecStore == InitStore /\ [][NextStore]_vars

\* the primary keys of the stored rows
StoredKeys(st) == {<<r.symbol, r.timeframe, r.open_time>> : r \in st}

(***************************************************************************)
(* C34  Store only grows: no step of sync_symbol_timeframe, sync_symbols,  *)
(* the data fetcher's sync or BacktestEngine.run removes a stored key.     *)
(***************************************************************************)
C34_StoreOnlyGrows ==
    [][store' # store => StoredKeys(store) \subseteq StoredKeys(store')]_vars

\* a call is about to upsert a batch with a key that another call has stored
C34_Witness ==
    \E p \in Procs : \E q \in Procs :
        /\ p # q
        /\ pc[p] = "upsert"
        /\ call[q].inserted > 0
        /\ \E b \in call[p].frame : \E r \in PairRows(p) : r.open_time = b.open_time

====
